---------------------------- MODULE Spec2Model ----------------------------
(***************************************************************************)
(* A model of the automated job search program: the job-board adapters     *)
(* (src/src/scrapers), the collection, de-duplication and filtering of     *)
(* main() (src/main.py), the resume tailoring engine                       *)
(* (src/src/resume_generator/openai_generator.py) and the skills section   *)
(* of the document assembler (src/src/document_creator/docx_generator.py). *)
(*                                                                         *)
(* Python strings are TLA+ strings, handled character by character with    *)
(* Len, SubSeq and \o.  Python's None is the value None below.             *)
(*                                                                         *)
(* Nine specifications share the variables; each leaves the variables of  *)
(* the others at their idle values:                                        *)
(*   Spec        one run of main(), from the searches to the filtered list *)
(*   SpecQuick   one run of main() or one BaseScraper.run of an adapter    *)
(*   SpecProcess main() from the filtered list on: the batches, the jobs   *)
(*               processed and the summary                                 *)
(*   SpecFilter  one search of one adapter and the filter of its caller    *)
(*   SpecTailor  the resume generators of one resume file and the document *)
(*   SpecBullets one _generate_experience_bullets call                     *)
(*   SpecSkills  one skills value and the normal forms the code gives it   *)
(*   SpecPublish the tracking sheet, and what process_job_application does *)
(*               with a tailored resume: the file, the upload, the row     *)
(*   SpecResumes the tracking sheet under add_jobs, update_job,            *)
(*               get_jobs_for_resume_generation and generate_resumes       *)
(***************************************************************************)
EXTENDS Integers, Sequences, FiniteSets, TLC

VARIABLES
    \* ---- one adapter call followed by a filter (SpecFilter)
    fpc,          \* "ready" | "searched" | "filtered"
    board,        \* the adapter that searched: "Adzuna" | "Reed" | ""
    response,     \* the job board's HTTP response to the search
    jobs,         \* what search() returned
    fkind,        \* the filter applied to jobs: "filter_jobs" | "main" | ""
    filtered,     \* what that filter returned
    \* ---- one run of main() (Spec)
    mpc,          \* "searching" | "returned" (no job found) | "filtered"
    quick_test,   \* os.getenv('QUICK_TEST', 'true').lower() == 'true'
    scrapers,     \* the adapters of the enabled boards, in priority order
    scraper_i,    \* the position of the three nested loops: the adapter,
    keyword_i,    \*   the keyword
    location_i,   \*   and the location of the next search
    found_jobs,   \* found_jobs of the adapter being searched
    all_jobs,     \* the postings collected so far
    unique_jobs,  \* all_jobs without its duplicates
    filtered_jobs, \* unique_jobs without the excluded titles
    searched,     \* per board, the searches made on it so far: "never" |
                  \*   "empty" (none returned a job) | "found" (the last one
                  \*   did, and no other before it) | "again" (a search was
                  \*   made after one that returned jobs)
    batch_i,      \* i of the batch loop, line 464
    job_i,        \* the place in the batch of the job processed next
    attempted,    \* the postings process_job_application was called on
    processed_jobs, \* the jobs it returned
    listed,       \* the jobs the summary printed
    \* ---- one resume file, its generators and the documents (SpecTailor)
    tpc,          \* "fresh" | "tailored" | "call_raised" (generate_tailored_resume
                  \*   raised) | "annotated" | "raised" | "assembled"
    loaded,       \* the content of the resume file
    resume_data,  \* self.resume_data of the OpenAIResumeGenerator
    tailored,     \* the dict generate_tailored_resume returned, when a copy
    returned_base, \* the dict it returned is self.resume_data itself
    llm,          \* the answers of the language model during that call
    calls,        \* the calls of generate_tailored_resume on this generator
    prompts,      \* the resume text put into the prompts of that call
    document,     \* the document generate_resume_file assembled
    \* ---- one skills value and its normal form (SpecSkills)
    npc,          \* "input" | "normalized" | "templated"
    skills_in,    \* the skills value of a resume
    normalizer,   \* the code that normalized it
    normal_text,  \* the text it was turned into
    normal_paras, \* the paragraphs it was rendered as
    templated,    \* what _create_template_resume met and returned
    \* ---- the tracking sheet and the publication of a resume (SpecPublish)
    ppc,          \* "start" | "added" (add_jobs ran) | "processed"
    sheet,        \* the rows of the Jobs sheet under its header row
    appended,     \* the rows the last operation appended
    created,      \* what create_resume did and returned, when it was called
    drive_url,    \* what upload_to_google_drive returned, when it was called
    processed,    \* how process_job_application ended
    resume_jobs,  \* what the last get_jobs_for_resume_generation returned
    last_update,  \* the last update_job call: its job_url and its result
    stored,       \* the job URLs update_job stored a resume link for
    \* ---- one BaseScraper.run of one adapter (SpecQuick)
    rpc,          \* "running" | "saved"
    run_board,    \* the adapter run() was called on
    run_quick,    \* self.quick_test
    run_jobs,     \* self.jobs
    run_k,        \* the place of the keyword and
    run_l,        \*   of the location of the next search
    run_searched, \* the searches made so far, as in searched
    \* ---- one _generate_experience_bullets call (SpecBullets)
    bpc,          \* "asking" | "returned"
    bullets_in,   \* the answer of the language model
    bullets_out   \* the list the call returned

filterVars == <<fpc, board, response, jobs, fkind, filtered>>

mainVars ==
    <<mpc, quick_test, scrapers, scraper_i, keyword_i, location_i, found_jobs,
      all_jobs, unique_jobs, filtered_jobs, searched, batch_i, job_i, attempted,
      processed_jobs, listed>>

tailorVars ==
    <<tpc, loaded, resume_data, tailored, returned_base, llm, calls, prompts, document>>

processVars == <<batch_i, job_i, attempted, processed_jobs, listed>>

skillsVars == <<npc, skills_in, normalizer, normal_text, normal_paras, templated>>

publishVars == <<ppc, sheet, appended, created, drive_url, processed,
                 resume_jobs, last_update, stored>>

runVars == <<rpc, run_board, run_quick, run_jobs, run_k, run_l, run_searched>>

bulletsVars == <<bpc, bullets_in, bullets_out>>

vars == <<filterVars, mainVars, tailorVars, skillsVars, publishVars, runVars,
          bulletsVars>>

\* What the steps of one specification leave alone.
notFilterVars == <<mainVars, tailorVars, skillsVars, publishVars, runVars, bulletsVars>>
notMainVars == <<filterVars, tailorVars, skillsVars, publishVars, runVars, bulletsVars>>
notTailorVars == <<filterVars, mainVars, skillsVars, publishVars, runVars, bulletsVars>>
notSkillsVars == <<filterVars, mainVars, tailorVars, publishVars, runVars, bulletsVars>>
notPublishVars == <<filterVars, mainVars, tailorVars, skillsVars, runVars, bulletsVars>>
notRunVars == <<filterVars, mainVars, tailorVars, skillsVars, publishVars,
               bulletsVars>>
notBulletsVars == <<filterVars, mainVars, tailorVars, skillsVars, publishVars,
                   runVars>>

-----------------------------------------------------------------------------
(* Python values                                                           *)

\* None: what dict.get returns for a missing key, and a function that ends
\* without a return statement.
None == "<None>"

\* bool(v) for the strings and None the model holds.
Truthy(v) == v # None /\ v # ""

-----------------------------------------------------------------------------
(* Python str methods, character by character                              *)

UpperAlphabet == "ABCDEFGHIJKLMNOPQRSTUVWXYZ"
LowerAlphabet == "abcdefghijklmnopqrstuvwxyz"

CharAt(s, i) == SubSeq(s, i, i)

IsUpperChar(c) == \E i \in 1..26 : CharAt(UpperAlphabet, i) = c
IsLowerChar(c) == \E i \in 1..26 : CharAt(LowerAlphabet, i) = c
IsAlphaChar(c) == IsUpperChar(c) \/ IsLowerChar(c)

LowerChar(c) ==
    IF IsUpperChar(c)
    THEN CharAt(LowerAlphabet, CHOOSE i \in 1..26 : CharAt(UpperAlphabet, i) = c)
    ELSE c

UpperChar(c) ==
    IF IsLowerChar(c)
    THEN CharAt(UpperAlphabet, CHOOSE i \in 1..26 : CharAt(LowerAlphabet, i) = c)
    ELSE c

\* s.lower()
RECURSIVE LowerRec(_)
LowerRec(s) ==
    IF s = "" THEN ""
    ELSE LowerChar(CharAt(s, 1)) \o LowerRec(SubSeq(s, 2, Len(s)))

\* sub in s
ContainsRec(s, sub) ==
    \E i \in 1..(Len(s) - Len(sub) + 1) : SubSeq(s, i, i + Len(sub) - 1) = sub

\* The elements of a sequence.
Range(seq) == { seq[i] : i \in DOMAIN seq }

\* s.find(sub), counted from 1; 0 when sub is not in s (Python's -1).
Find(s, sub) ==
    LET at == { i \in 1..(Len(s) - Len(sub) + 1) : SubSeq(s, i, i + Len(sub) - 1) = sub } IN
    IF at = {} THEN 0 ELSE CHOOSE i \in at : \A j \in at : i <= j

\* s.split(sep)
RECURSIVE Split(_, _)
Split(s, sep) ==
    LET i == Find(s, sep) IN
    IF i = 0 THEN <<s>>
    ELSE <<SubSeq(s, 1, i - 1)>> \o Split(SubSeq(s, i + Len(sep), Len(s)), sep)

\* s.split(sep, 1)
SplitOnce(s, sep) ==
    LET i == Find(s, sep) IN
    IF i = 0 THEN <<s>>
    ELSE <<SubSeq(s, 1, i - 1), SubSeq(s, i + Len(sep), Len(s))>>

\* s.replace(old, new)
RECURSIVE Replace(_, _, _)
Replace(s, old, new) ==
    LET i == Find(s, old) IN
    IF i = 0 THEN s
    ELSE SubSeq(s, 1, i - 1) \o new \o Replace(SubSeq(s, i + Len(old), Len(s)), old, new)

\* sep.join(parts)
RECURSIVE Join(_, _)
Join(parts, sep) ==
    IF parts = <<>> THEN ""
    ELSE IF Len(parts) = 1 THEN parts[1]
    ELSE parts[1] \o sep \o Join(Tail(parts), sep)

\* s.lstrip(chars) and s.rstrip(chars), chars a set of characters
RECURSIVE LStrip(_, _)
LStrip(s, chars) ==
    IF s # "" /\ CharAt(s, 1) \in chars THEN LStrip(SubSeq(s, 2, Len(s)), chars) ELSE s

RECURSIVE RStrip(_, _)
RStrip(s, chars) ==
    IF s # "" /\ CharAt(s, Len(s)) \in chars THEN RStrip(SubSeq(s, 1, Len(s) - 1), chars) ELSE s

Whitespace == { " ", "\n", "\t", "\r" }

\* s.strip()
Strip(s) == RStrip(LStrip(s, Whitespace), Whitespace)

\* s.title(): a letter that follows a letter is lowered, any other letter is
\* raised.
RECURSIVE TitleFrom(_, _)
TitleFrom(s, after_letter) ==
    IF s = "" THEN ""
    ELSE LET c == CharAt(s, 1) IN
         (IF after_letter THEN LowerChar(c) ELSE UpperChar(c))
             \o TitleFrom(SubSeq(s, 2, Len(s)), IsAlphaChar(c))

Title(s) == TitleFrom(s, FALSE)

-----------------------------------------------------------------------------
(* Configuration (config.json, read by every component)                    *)

\* config["job_search"]["excluded_keywords"]: matched through keyword.lower()
excluded_keywords == <<"Senior", "Architect">>

\* config["job_search"]["min_salary"]
min_salary == 60000

\* config["job_search"]["keywords"] and ["locations"]
keywords == <<"python developer", "software engineer">>
locations == <<"Remote", "London">>

-----------------------------------------------------------------------------
(* What a job board returns.  One result of a response is                  *)
(*   [title, company, location, url, description, salary, missing]         *)
(* where location is Adzuna's location.display_name / Reed's locationName, *)
(* url is Adzuna's redirect_url / Reed's jobUrl, id is Reed's jobId, and    *)
(* missing names a key the result lacks: "" (none), "title" (Adzuna's      *)
(* title / Reed's jobTitle) or "company" (Adzuna's company / Reed's        *)
(* employerName).                                                          *)

MaxResults == 2

Titles ==
    { "Remote Python Developer", "Backend Engineer", "Remote Solutions ARCHITECT" }

Locations == { "Anywhere", "New York", "Remote, UK" }

Descriptions ==
    { "Collaborate daily in our NYC office",
      "This is a fully remote role",
      "Remote work but must relocate to Austin",
      "Hybrid, 3 days a week" }

\* salary is Adzuna's salary_min / Reed's minimumSalary, 0 when the board gives none.
\* The board gives every advertisement a URL of its own.
Result(t, l, d, sal, m) ==
    [title |-> t, company |-> "Acme", location |-> l,
     url |-> "https://jobs/" \o t \o "/" \o l \o "/" \o d, id |-> "42",
     description |-> d, salary |-> sal, missing |-> m]

Results ==
    { Result(t, l, d, 0, "") : t \in Titles, l \in Locations, d \in Descriptions }
    \cup { Result("Remote Python Developer", "Anywhere", "This is a fully remote role", 0, "title"),
           Result("Remote Python Developer", "Anywhere", "This is a fully remote role", 0, "company"),
           Result("Backend Engineer", "New York", "Collaborate daily in our NYC office", 0, "company"),
           Result("Remote Python Developer", "Anywhere", "Fully remote, next to a senior architect", 0, ""),
           Result("Remote Python Developer", "Anywhere", "This is a fully remote role", 50000, ""),
           Result("Remote Solutions ARCHITECT", "Anywhere", "This is a fully remote role", 90000, "") }

\* ok = FALSE: the request raised or the status was not 200.
Responses ==
    { [ok |-> FALSE, results |-> <<>>] }
    \cup { [ok |-> TRUE, results |-> r] :
             r \in UNION { [1..n -> Results] : n \in 0..MaxResults } }

NoResponse == [ok |-> FALSE, results |-> <<>>]

-----------------------------------------------------------------------------
(* The phrase lists of the adapters                                        *)

adzuna_remote_indicators ==
    << "fully remote", "100% remote", "remote position", "work from home",
       "work from anywhere", "remote work", "remote opportunity" >>

adzuna_exclude_indicators ==
    << "hybrid", "in office", "in-office", "on site", "on-site", "onsite",
       "must be in", "must work in", "must live in", "must be located",
       "must relocate", "required to work", "days per week in",
       "days in office", "office presence", "office attendance",
       "come to the office" >>

reed_exclude_keywords ==
    << "senior", "sr.", "sr ", "lead", "principal", "staff", "manager",
       "director", "head of", "chief" >>

reed_remote_indicators ==
    << "fully remote", "100% remote", "remote position", "work from home",
       "work from anywhere", "remote work", "remote opportunity" >>

-----------------------------------------------------------------------------
(* lower() and "in" are the same for every posting that carries the same   *)
(* text: they are tabulated once over the texts and phrases of the model,  *)
(* and computed character by character for any other string.               *)

Texts ==
    Titles \cup Locations \cup Descriptions \cup Range(excluded_keywords)
    \cup { r.description : r \in Results }

Phrases ==
    { "remote" } \cup { LowerRec(k) : k \in Range(excluded_keywords) }
    \cup Range(adzuna_remote_indicators) \cup Range(adzuna_exclude_indicators)
    \cup Range(reed_exclude_keywords) \cup Range(reed_remote_indicators)

LowerPairs == { <<s, LowerRec(s)>> : s \in Texts }

LoweredTexts == { p[2] : p \in LowerPairs }

ContainsPairs ==
    { <<p[1], p[2]>> : p \in { q \in LoweredTexts \X Phrases : ContainsRec(q[1], q[2]) } }

Lower(s) ==
    IF s \in Texts THEN (CHOOSE p \in LowerPairs : p[1] = s)[2] ELSE LowerRec(s)

Contains(s, sub) ==
    IF s \in LoweredTexts /\ sub \in Phrases THEN <<s, sub>> \in ContainsPairs
    ELSE ContainsRec(s, sub)

\* any(p in s for p in phrases), phrases a sequence of strings
AnyIn(phrases, s) == \E k \in DOMAIN phrases : Contains(s, phrases[k])

-----------------------------------------------------------------------------
(* AdzunaScraper.search                                                    *)

\* any(keyword.lower() in job["title"].lower() for keyword in excluded_keywords)
AdzunaTitleExcluded(job) ==
    \E k \in DOMAIN excluded_keywords :
        Contains(Lower(job.title), Lower(excluded_keywords[k]))

\* Mutant: the description is matched as written, not lowered.
AdzunaHasExcludeIndicator_AsWritten(job) ==
    AnyIn(adzuna_exclude_indicators, job.description)

\* any(indicator in description for indicator in exclude_indicators)
AdzunaHasExcludeIndicator(job) ==
    AnyIn(adzuna_exclude_indicators, Lower(job.description))

\* Mutant: only the description's phrases count, not the title or location.
AdzunaIsRemote_DescriptionOnly(job) ==
    AnyIn(adzuna_remote_indicators, Lower(job.description))

\* is_remote
AdzunaIsRemote(job) ==
    \/ Contains(Lower(job.title), "remote")
    \/ Contains(Lower(job.location), "remote")
    \/ AnyIn(adzuna_remote_indicators, Lower(job.description))

\* job_data, the posting built from one result
AdzunaJobData(job) ==
    [title |-> job.title, company |-> job.company, location |-> job.location,
     url |-> job.url, salary |-> job.salary, description |-> job.description,
     source |-> "Adzuna"]

\* The loop over data["results"]: raised is a KeyError, which leaves the loop.
RECURSIVE AdzunaLoop(_, _, _)
AdzunaLoop(results, i, acc) ==
    IF i > Len(results) THEN [raised |-> FALSE, jobs |-> acc]
    ELSE LET job == results[i] IN
         IF job.missing = "title" THEN [raised |-> TRUE, jobs |-> <<>>]
         ELSE IF AdzunaTitleExcluded(job) THEN AdzunaLoop(results, i + 1, acc)
         ELSE IF AdzunaHasExcludeIndicator(job) THEN AdzunaLoop(results, i + 1, acc)
         ELSE IF ~AdzunaIsRemote(job) THEN AdzunaLoop(results, i + 1, acc)
         ELSE IF job.missing # "" THEN [raised |-> TRUE, jobs |-> <<>>]
         ELSE AdzunaLoop(results, i + 1, Append(acc, AdzunaJobData(job)))

\* search(): every exception is caught and turned into [].
AdzunaScraper_search(resp) ==
    IF ~resp.ok THEN <<>>
    ELSE LET r == AdzunaLoop(resp.results, 1, <<>>) IN
         IF r.raised THEN <<>> ELSE r.jobs

-----------------------------------------------------------------------------
(* ReedScraper.search                                                      *)

ReedExcluded(job) ==
    \/ AnyIn(reed_exclude_keywords, Lower(job.title))
    \/ AnyIn(reed_exclude_keywords, Lower(job.description))

\* Mutant: the search keywords (which always hold "remote") are tested
\* instead of the posting.
ReedIsRemote_OfKeywords(job) == Contains("python developer remote", "remote")

\* is_remote
ReedIsRemote(job) ==
    \/ Contains(Lower(job.title), "remote")
    \/ Contains(Lower(job.location), "remote")
    \/ AnyIn(reed_remote_indicators, Lower(job.description))

ReedJobData(job) ==
    [title |-> job.title, company |-> job.company, location |-> job.location,
     url |-> IF Truthy(job.url) THEN job.url
             ELSE "https://www.reed.co.uk/jobs/" \o job.id,
     salary |-> job.salary, description |-> job.description,
     source |-> "Reed"]

RECURSIVE ReedLoop(_, _, _)
ReedLoop(results, i, acc) ==
    IF i > Len(results) THEN [raised |-> FALSE, jobs |-> acc]
    ELSE LET job == results[i] IN
         IF job.missing = "title" THEN [raised |-> TRUE, jobs |-> <<>>]
         ELSE IF ReedExcluded(job) THEN ReedLoop(results, i + 1, acc)
         ELSE IF ~ReedIsRemote(job) THEN ReedLoop(results, i + 1, acc)
         ELSE IF job.missing # "" THEN [raised |-> TRUE, jobs |-> <<>>]
         ELSE ReedLoop(results, i + 1, Append(acc, ReedJobData(job)))

ReedScraper_search(resp) ==
    IF ~resp.ok THEN <<>>
    ELSE LET r == ReedLoop(resp.results, 1, <<>>) IN
         IF r.raised THEN <<>> ELSE r.jobs

-----------------------------------------------------------------------------
(* BaseScraper.filter_jobs and the filter of main()                        *)

\* any(keyword.lower() in job.get("title", "").lower() for keyword in excluded_keywords)
FilterJobsTitleExcluded(job) ==
    \E k \in DOMAIN excluded_keywords :
        Contains(Lower(job.title), Lower(excluded_keywords[k]))

\* salary and isinstance(salary, (int, float)) and salary < min_salary
FilterJobsSalaryBelow(job) ==
    job.salary # 0 /\ job.salary < min_salary

RECURSIVE BaseScraper_filter_jobs(_)
BaseScraper_filter_jobs(jobs_list) ==
    IF jobs_list = <<>> THEN <<>>
    ELSE LET job == Head(jobs_list)
             rest == BaseScraper_filter_jobs(Tail(jobs_list)) IN
         IF FilterJobsTitleExcluded(job) THEN rest
         ELSE IF FilterJobsSalaryBelow(job) THEN rest
         ELSE <<job>> \o rest

\* Mutant: the title is matched as written, not lowered.
MainTitleExcluded_AsWritten(job) ==
    \E k \in DOMAIN excluded_keywords :
        Contains(job.title, Lower(excluded_keywords[k]))

\* any(term.lower() in job['title'].lower() for term in excluded_keywords)
MainTitleExcluded(job) ==
    \E k \in DOMAIN excluded_keywords :
        Contains(Lower(job.title), Lower(excluded_keywords[k]))

\* filtered_jobs = [job for job in unique_jobs if not any(...)]
RECURSIVE MainFilteredJobs(_)
MainFilteredJobs(unique) ==
    IF unique = <<>> THEN <<>>
    ELSE LET job == Head(unique)
             rest == MainFilteredJobs(Tail(unique)) IN
         IF MainTitleExcluded(job) THEN rest ELSE <<job>> \o rest

\* The de-duplication of main(): url = job.get('url') or job.get('redirect_url');
\* a posting built by an adapter has no 'redirect_url' key.
DedupUrl(job) == IF Truthy(job.url) THEN job.url ELSE None

RECURSIVE MainUniqueLoop(_, _, _)
MainUniqueLoop(all, seen_urls, unique) ==
    IF all = <<>> THEN unique
    ELSE LET job == Head(all)
             url == DedupUrl(job) IN
         IF Truthy(url) /\ url \notin seen_urls
         THEN MainUniqueLoop(Tail(all), seen_urls \cup {url}, Append(unique, job))
         ELSE MainUniqueLoop(Tail(all), seen_urls, unique)

\* Mutant: a later posting replaces the one kept for its URL.
MainUniqueJobs_LastWins(all) ==
    LET Rev(q) == [i \in 1..Len(q) |-> q[Len(q) + 1 - i]] IN
    Rev(MainUniqueLoop(Rev(all), {}, <<>>))

MainUniqueJobs(all) == MainUniqueLoop(all, {}, <<>>)

-----------------------------------------------------------------------------
(* Python values of more than one type: the "skills" value of a resume is  *)
(* a dict of category -> list (d: its items in insertion order), a list    *)
(* (l), a str (s), or None.                                                *)

PyNone == [shape |-> "none", s |-> "", l |-> <<>>, d |-> <<>>]
PyStr(s) == [shape |-> "str", s |-> s, l |-> <<>>, d |-> <<>>]
PyList(l) == [shape |-> "list", s |-> "", l |-> l, d |-> <<>>]
PyDict(items) == [shape |-> "dict", s |-> "", l |-> <<>>, d |-> items]

\* One item of a skills dict.
Item(category, skills) == [category |-> category, skills |-> skills]

\* bool(x)
PyTruthy(x) ==
    CASE x.shape = "none" -> FALSE
      [] x.shape = "str" -> x.s # ""
      [] x.shape = "list" -> x.l # <<>>
      [] OTHER -> x.d # <<>>

-----------------------------------------------------------------------------
(* resume_generator.OpenAIResumeGenerator: the three generation steps.     *)
(* The answer of the language model to one request is [ok, content]: ok is *)
(* FALSE when client.chat.completions.create raises.                       *)
(* The prompt of _generate_skills_section (lines 122-160) is an f-string   *)
(* with a backslash inside an expression, which Python reads from version  *)
(* 3.12 on; the model is of the module as it runs there.                   *)

LLMError == [ok |-> FALSE, content |-> ""]
LLMAnswer(content) == [ok |-> TRUE, content |-> content]

\* What the language model may answer to the three kinds of request.
SummaryAnswers ==
    { LLMError, LLMAnswer(" Python engineer for remote teams.\n"), LLMAnswer("") }

SkillsAnswers ==
    { LLMError,
      LLMAnswer("Languages:\nPython, SQL, JavaScript\n\nGit"),
      LLMAnswer("**Programming Languages**\nPython, SQL, JavaScript\n\n**Git**\n\n**Scrum**"),
      LLMAnswer("") }

\* U+2022, the bullet character of line 277
Bullet == "@"

BulletAnswers ==
    { LLMError,
      LLMAnswer("@ Led API work\n- Cut costs 20%\n\n* Shipped the app\n"),
      LLMAnswer(" \n") }

\* The skills values of the resume files: a category map, a list, a string.
BaseSkills ==
    { PyDict(<<Item("languages", <<"Python", "SQL">>), Item("git", <<>>)>>),
      PyDict(<<Item("programming_languages", <<"Python">>), Item("scrum", <<"Scrum">>)>>),
      PyList(<<"Python", "SQL">>),
      PyStr("Python, SQL") }

\* _generate_summary, with the summary self.resume_data holds
generate_summary(base_summary, answer) ==
    IF answer.ok THEN Strip(answer.content) ELSE base_summary

\* _format_original_skills, on the items of self.resume_data["skills"]
format_original_skills(items) ==
    Join([i \in DOMAIN items |->
            IF LowerRec(items[i].category) \in {"git", "scrum"}
            THEN Title(items[i].category)
            ELSE Title(Replace(items[i].category, "_", " ")) \o ":\n"
                     \o Join(items[i].skills, ", ")],
         "\n\n")

\* Lines 182-204: the lines of the answer, one by one.
RECURSIVE FormatLines(_, _, _)
FormatLines(lines, i, formatted_lines) ==
    IF i > Len(lines) THEN formatted_lines
    ELSE LET stripped == Strip(lines[i])
             line == Replace(stripped, "**", "") IN
         IF stripped = "" THEN FormatLines(lines, i + 1, formatted_lines)
         ELSE IF ~ContainsRec(line, ",")
         THEN FormatLines(lines, i + 1,
                  (IF formatted_lines # <<>> THEN formatted_lines \o <<"">> ELSE <<>>)
                      \o <<line>>)
         ELSE FormatLines(lines, i + 1, formatted_lines \o <<line>>)

\* Lines 207-208
RECURSIVE PopEmptyLines(_)
PopEmptyLines(formatted_lines) ==
    IF formatted_lines # <<>> /\ formatted_lines[Len(formatted_lines)] = ""
    THEN PopEmptyLines(SubSeq(formatted_lines, 1, Len(formatted_lines) - 1))
    ELSE formatted_lines

\* Lines 172-212: the section cut out of the answer, or None when the answer
\* lacks one of the two marks and the function ends without a return.
ExtractSkillsSection(skills) ==
    IF ContainsRec(skills, "Programming Languages") /\ ContainsRec(skills, "Scrum")
    THEN LET start_idx == Find(skills, "Programming Languages")
             end_idx == Find(skills, "Scrum") + Len("Scrum") - 1
             skills_section == SubSeq(skills, start_idx, end_idx) IN
         PyStr(Join(PopEmptyLines(FormatLines(Split(skills_section, "\n"), 1, <<>>)), "\n"))
    ELSE PyNone

\* _generate_skills_section: [raised, value]. A skills value without .items()
\* raises at line 114 and again, inside the handler, at line 222.
generate_skills_section_of(base_skills, answer) ==
    IF base_skills.shape # "dict" THEN [raised |-> TRUE, value |-> PyNone]
    ELSE IF ~answer.ok
    THEN [raised |-> FALSE, value |-> PyStr(format_original_skills(base_skills.d))]
    ELSE [raised |-> FALSE, value |-> ExtractSkillsSection(Strip(answer.content))]

\* The same, computed once for the values and the answers above.
SkillsSectionPairs ==
    { <<b, a, generate_skills_section_of(b, a)>> : b \in BaseSkills, a \in SkillsAnswers }

generate_skills_section(base_skills, answer) ==
    IF base_skills \in BaseSkills /\ answer \in SkillsAnswers
    THEN (CHOOSE p \in SkillsSectionPairs : p[1] = base_skills /\ p[2] = answer)[3]
    ELSE generate_skills_section_of(base_skills, answer)

\* Line 277
RECURSIVE CleanBullets(_)
CleanBullets(bullets) ==
    IF bullets = <<>> THEN <<>>
    ELSE (IF Strip(bullets[1]) # ""
          THEN <<Strip(LStrip(Strip(bullets[1]), {Bullet, "-", "*"}))>>
          ELSE <<>>) \o CleanBullets(Tail(bullets))

\* _generate_experience_bullets, with the description the entry holds
CleanedPairs ==
    { <<a, CleanBullets(Split(Strip(a.content), "\n"))>> : a \in BulletAnswers }

generate_experience_bullets(description, answer) ==
    IF ~answer.ok THEN description
    ELSE IF answer \in BulletAnswers THEN (CHOOSE p \in CleanedPairs : p[1] = answer)[2]
    ELSE CleanBullets(Split(Strip(answer.content), "\n"))

\* Mutant: an error raised inside a step reaches the caller.
generate_tailored_resume_returns_Propagates(step_raised) ==
    IF step_raised THEN "raise" ELSE "copy"

\* generate_tailored_resume, the try of lines 48-64: what the caller gets when
\* a step raised inside it, the record self.resume_data itself, and otherwise
\* the shallow copy.
generate_tailored_resume_returns(step_raised) ==
    IF step_raised THEN "base" ELSE "copy"

\* generators.OpenAIResumeGenerator.generate_tailored_resume, lines 97-107:
\* current_skills
current_skills(skills) ==
    CASE skills.shape = "list" -> Join(skills.l, ", ")
      [] skills.shape = "str" -> skills.s
      [] OTHER -> "HTML, CSS, JavaScript, Python, React, Node.js, SQL"

-----------------------------------------------------------------------------
(* document_creator.DocxResumeGenerator: the paragraphs of the skills      *)
(* section, each [text, bold].                                             *)

Para(text, bold) == [text |-> text, bold |-> bold]

\* Lines 286-308
RECURSIVE RenderSections(_)
RenderSections(sections) ==
    IF sections = <<>> THEN <<>>
    ELSE LET section == Strip(sections[1]) IN
         (IF section = "" THEN <<>>
          ELSE IF ContainsRec(section, ":")
          THEN LET parts == SplitOnce(section, ":") IN
               <<Para(Strip(parts[1]), TRUE), Para(Strip(parts[2]), FALSE)>>
          ELSE <<Para(section, TRUE)>>)
         \o RenderSections(Tail(sections))

\* Lines 312-319
RECURSIVE RenderCategories(_)
RenderCategories(items) ==
    IF items = <<>> THEN <<>>
    ELSE (IF LowerRec(items[1].category) \notin {"git", "scrum"} /\ items[1].skills # <<>>
          THEN <<Para(Title(Replace(items[1].category, "_", " ")), TRUE),
                 Para(Join(items[1].skills, ", "), FALSE)>>
          ELSE <<>>)
         \o RenderCategories(Tail(items))

\* Lines 322-326
RenderStandalone(items, category) ==
    IF \E i \in DOMAIN items : items[i].category = category /\ items[i].skills # <<>>
    THEN <<Para(Title(category), TRUE)>>
    ELSE <<>>

\* _create_basic_resume, lines 283-329
create_basic_resume_skills(skills_data) ==
    IF skills_data.shape = "str" /\ Strip(skills_data.s) # ""
    THEN RenderSections(Split(skills_data.s, "\n\n"))
    ELSE IF skills_data.shape = "dict"
    THEN RenderCategories(skills_data.d)
             \o RenderStandalone(skills_data.d, "git")
             \o RenderStandalone(skills_data.d, "scrum")
    ELSE <<>>

\* create_resume, lines 453-461
create_resume_skills_of(skills) ==
    create_basic_resume_skills(
        IF PyTruthy(skills) THEN skills
        ELSE PyStr("Python, Javascript, HTML, CSS, React, Node.js"))

\* The same, computed once for the skills values a generator can return.
ReturnedSkills == BaseSkills \cup { p[3].value : p \in SkillsSectionPairs }

RenderedPairs == { <<v, create_resume_skills_of(v)>> : v \in ReturnedSkills }

create_resume_skills(skills) ==
    IF skills \in ReturnedSkills THEN (CHOOSE p \in RenderedPairs : p[1] = skills)[2]
    ELSE create_resume_skills_of(skills)

-----------------------------------------------------------------------------
(* The resume records                                                      *)

\* The resume file: metadata is None, the file has no such key.
Resume(summary, skills, experience) ==
    [summary |-> summary, skills |-> skills, experience |-> experience,
     metadata |-> None]

Experience(title, description) == [title |-> title, description |-> description]

NoResume == Resume("", PyNone, <<>>)
NoTailored == [summary |-> "", skills |-> PyNone, metadata |-> None]
NotAsked == [ok |-> FALSE, content |-> "<not asked>"]
NoCall == [job |-> "", summary |-> NotAsked, skills |-> NotAsked, bullets |-> <<>>]
NoDocument == [summary |-> "", skills |-> <<>>, experience |-> <<>>]
NoPrompts == [summary |-> "", bullets |-> <<>>]

-----------------------------------------------------------------------------
(* The file, the upload and the tracking sheet.  A Python dict of strings  *)
(* is a function from its keys; a row of the sheet is a record of the      *)
(* columns Job Title, Company, Location, Job URL, Application Status and   *)
(* Custom Resume URL.                                                      *)

\* d.get(key, default)
Get(d, key, default) == IF key \in DOMAIN d THEN d[key] ELSE default

\* tailored_resume['skills'][:100], main.py lines 306 and 327: None and a
\* dict take no slice.
skills_slice_raises(skills) == skills.shape \notin {"str", "list"}

\* os.path.join('generated_resumes', filename)
OutputPath == "generated_resumes/resume.docx"

\* file.get('webViewLink')
WebViewLink == "https://drive.example/resume"

\* DocxResumeGenerator.create_resume, lines 465-483, as the things it does
\* in order and what it returns: doc.save raises or not, self.drive_service
\* is set or None, and _upload_to_drive returns the file's id or None.
create_resume_UploadsFirst(save_ok, drive_service, upload_ok) ==
    [raised |-> ~save_ok,
     path |-> IF save_ok THEN OutputPath ELSE "",
     events |-> (IF drive_service
                 THEN <<IF upload_ok THEN "uploaded" ELSE "upload_failed">>
                 ELSE <<>>)
                \o <<IF save_ok THEN "saved" ELSE "save_failed">>]

create_resume(save_ok, drive_service, upload_ok) ==
    IF ~save_ok
    THEN [raised |-> TRUE, path |-> "", events |-> <<"save_failed">>]
    ELSE [raised |-> FALSE, path |-> OutputPath,
          events |-> <<"saved">> \o
                     (IF drive_service
                      THEN <<IF upload_ok THEN "uploaded" ELSE "upload_failed">>
                      ELSE <<>>)]

\* DocxResumeGenerator.upload_to_google_drive, lines 564-600, with
\* _upload_to_drive, lines 504-538: the link, or None when there is no
\* drive service, when the upload fails or when the sharing requests raise.
upload_to_google_drive(drive_service, upload_ok, share_ok) ==
    IF drive_service /\ upload_ok /\ share_ok THEN WebViewLink ELSE None

\* GoogleSheetsManager.add_jobs, lines 218-241: the row of one job.
Row(job) ==
    [title |-> Get(job, "title", ""),
     company |-> Get(job, "company", ""),
     location |-> Get(job, "location", ""),
     url |-> Get(job, "url", ""),
     status |-> "Not Started",
     resume_url |-> ""]

\* GoogleSheetsManager.add_jobs(jobs), lines 193-262, on the rows the sheet
\* holds: get_all_jobs returns them, or [] when its request fails (lines
\* 264-293); _append_values appends or raises.
add_jobs(rows, batch, read_ok, append_ok) ==
    LET current_urls == IF read_ok THEN { rows[i].url : i \in DOMAIN rows } ELSE {}
        added_jobs == SelectSeq(batch, LAMBDA job : Get(job, "url", "") \notin current_urls)
        rows_to_add == [i \in DOMAIN added_jobs |-> Row(added_jobs[i])]
    IN IF added_jobs # <<>> /\ append_ok
       THEN [sheet |-> rows \o rows_to_add, appended |-> rows_to_add, added |-> added_jobs]
       ELSE [sheet |-> rows, appended |-> <<>>, added |-> <<>>]

\* process_job_application, lines 355-368: the dict handed to add_jobs.
sheet_data(job_data, url) ==
    ("Job Title" :> job_data["title"])
    @@ ("Company" :> job_data["company"])
    @@ ("Location" :> job_data["location"])
    @@ ("Job Type" :> "Remote")
    @@ ("Job URL" :> Get(job_data, "redirect_url", Get(job_data, "url", "")))
    @@ ("Application Status" :> "Resume Generated")
    @@ ("Custom Resume URL" :> url)

NotCalled == "<not called>"

\* The field of a row that holds a column of the Jobs sheet.
ColumnField ==
    ("Job Title" :> "title") @@ ("Company" :> "company")
    @@ ("Location" :> "location") @@ ("Job URL" :> "url")
    @@ ("Application Status" :> "status")
    @@ ("Custom Resume URL" :> "resume_url")

\* Lines 331-337 of update_job: the row with the columns of updates set; a
\* key that is no column of the sheet is passed over.
UpdatedRow(row_data, updates) ==
    [f \in DOMAIN row_data |->
        LET keys == { k \in DOMAIN updates \cap DOMAIN ColumnField : ColumnField[k] = f }
        IN IF keys = {} THEN row_data[f] ELSE updates[CHOOSE k \in keys : TRUE]]

\* GoogleSheetsManager.update_job(job_url, updates), lines 295-351, on the
\* rows the sheet holds: the request that reads them and _update_values
\* succeed or raise, and the row changed is the first whose Job URL is
\* job_url (lines 318-322).
update_job(rows, job_url, updates, read_ok, write_ok) ==
    LET matches == { i \in DOMAIN rows : rows[i].url = job_url } IN
    IF ~read_ok \/ matches = {} \/ ~write_ok
    THEN [sheet |-> rows, updated |-> FALSE]
    ELSE LET row_index == CHOOSE i \in matches : \A j \in matches : i <= j IN
         [sheet |-> [rows EXCEPT ![row_index] = UpdatedRow(@, updates)],
          updated |-> TRUE]

\* The test of lines 361-362
NeedsResume(job) == ~Truthy(job.resume_url) /\ job.status = "Not Started"

\* GoogleSheetsManager.get_jobs_for_resume_generation, lines 353-370, with
\* get_all_jobs, which returns [] when its request fails (lines 291-293).
get_jobs_for_resume_generation(rows, read_ok) ==
    IF read_ok THEN SelectSeq(rows, NeedsResume) ELSE <<>>

\* generate_resumes, main.py lines 123-169: the loop over the jobs returned,
\* from the i-th on; outcomes[i] tells whether the resume of the i-th job was
\* made and uploaded and whether the two requests of update_job succeeded.
RECURSIVE GenerateLoop(_, _, _, _, _)
GenerateLoop(rows, done, jobs_for_resumes, outcomes, i) ==
    IF i > Len(jobs_for_resumes) THEN [sheet |-> rows, stored |-> done]
    ELSE LET job_url == jobs_for_resumes[i].url
             wrote == update_job(rows, job_url, "Custom Resume URL" :> WebViewLink,
                                 outcomes[i] # "read_failed",
                                 outcomes[i] # "write_failed")
         IN IF ~Truthy(job_url) \/ outcomes[i] = "no_resume"
            THEN GenerateLoop(rows, done, jobs_for_resumes, outcomes, i + 1)
            ELSE GenerateLoop(wrote.sheet,
                              IF wrote.updated THEN done \cup {job_url} ELSE done,
                              jobs_for_resumes, outcomes, i + 1)

\* get_jobs_for_resume_generation and update_job were not called.
NotRead == [called |-> FALSE, read_ok |-> FALSE, jobs |-> <<>>]
NoUpdate == [job_url |-> NotCalled, updated |-> FALSE]

\* create_resume and upload_to_google_drive were not called.
NoCreated == [raised |-> FALSE, path |-> "", events |-> <<>>]
NotProcessed == [raised |-> FALSE, job_data |-> <<>>]

PublishIdle ==
    /\ ppc = "idle"
    /\ sheet = <<>>
    /\ appended = <<>>
    /\ created = NoCreated
    /\ drive_url = NotCalled
    /\ processed = NotProcessed
    /\ resume_jobs = NotRead
    /\ last_update = NoUpdate
    /\ stored = {}

RunIdle ==
    /\ rpc = "idle"
    /\ run_board = ""
    /\ run_quick = TRUE
    /\ run_jobs = <<>>
    /\ run_k = 1 /\ run_l = 1
    /\ run_searched = "never"

BulletsIdle ==
    /\ bpc = "idle"
    /\ bullets_in = NotAsked
    /\ bullets_out = <<>>

\* _create_template_resume was not called.
NoTemplate == [outcome |-> "", raised |-> FALSE, layout |-> ""]

SkillsIdle ==
    /\ npc = "idle"
    /\ skills_in = PyNone
    /\ normalizer = ""
    /\ normal_text = ""
    /\ normal_paras = <<>>
    /\ templated = NoTemplate

TailorIdle ==
    /\ tpc = "idle"
    /\ loaded = NoResume
    /\ resume_data = NoResume
    /\ tailored = NoTailored
    /\ returned_base = FALSE
    /\ llm = NoCall
    /\ calls = 0
    /\ prompts = NoPrompts
    /\ document = NoDocument

-----------------------------------------------------------------------------
(* SpecFilter: one search of one adapter on any response, followed by the  *)
(* filter its caller applies: BaseScraper.run applies filter_jobs, main()  *)
(* de-duplicates and applies its own title filter.                         *)

\* The boards main() knows, lines 401-405, before any search.
Boards == { "Reed", "Adzuna" }
NeverSearched == [b \in Boards |-> "never"]

\* What one more search on a board makes of its entry in searched.
Searched(before, found) ==
    IF before \in {"found", "again"} THEN "again"
    ELSE IF found THEN "found"
    ELSE "empty"

MainIdle ==
    /\ mpc = "idle"
    /\ quick_test = TRUE
    /\ scrapers = <<>>
    /\ scraper_i = 1 /\ keyword_i = 1 /\ location_i = 1
    /\ found_jobs = FALSE
    /\ all_jobs = <<>> /\ unique_jobs = <<>> /\ filtered_jobs = <<>>
    /\ searched = NeverSearched
    /\ batch_i = 0 /\ job_i = 1
    /\ attempted = <<>> /\ processed_jobs = <<>> /\ listed = <<>>

InitFilter ==
    /\ MainIdle
    /\ TailorIdle
    /\ SkillsIdle
    /\ PublishIdle
    /\ RunIdle
    /\ BulletsIdle
    /\ fpc = "ready"
    /\ board = ""
    /\ response = NoResponse
    /\ jobs = <<>>
    /\ fkind = ""
    /\ filtered = <<>>

AdzunaSearch ==
    /\ fpc = "ready"
    /\ \E resp \in Responses :
         /\ response' = resp
         /\ jobs' = AdzunaScraper_search(resp)
    /\ board' = "Adzuna"
    /\ fpc' = "searched"
    /\ UNCHANGED <<fkind, filtered, notFilterVars>>

ReedSearch ==
    /\ fpc = "ready"
    /\ \E resp \in Responses :
         /\ response' = resp
         /\ jobs' = ReedScraper_search(resp)
    /\ board' = "Reed"
    /\ fpc' = "searched"
    /\ UNCHANGED <<fkind, filtered, notFilterVars>>

\* BaseScraper.run, line 109: self.jobs = self.filter_jobs(self.jobs)
RunFilterJobs ==
    /\ fpc = "searched"
    /\ filtered' = BaseScraper_filter_jobs(jobs)
    /\ fkind' = "filter_jobs"
    /\ fpc' = "filtered"
    /\ response' = NoResponse
    /\ UNCHANGED <<board, jobs, notFilterVars>>

\* main(), lines 442-458
MainFilter ==
    /\ fpc = "searched"
    /\ filtered' = MainFilteredJobs(MainUniqueJobs(jobs))
    /\ fkind' = "main"
    /\ fpc' = "filtered"
    /\ response' = NoResponse
    /\ UNCHANGED <<board, jobs, notFilterVars>>

NextFilter ==
    \/ AdzunaSearch
    \/ ReedSearch
    \/ RunFilterJobs
    \/ MainFilter

SpecFilter == InitFilter /\ [][NextFilter]_vars

-----------------------------------------------------------------------------
(* Spec: one run of main(), from the first search to the filtered list.    *)
(* Every scraper.search call is one step, on whatever the board answers.   *)

\* The boards of a run answer with at most MaxCollected postings in all.
MaxCollected == 3

\* What the boards hold during one run: two advertisements under one URL, one
\* with a title the configuration excludes, and one that carries no URL.
MainResults ==
    { [Result("Remote Python Developer", "Anywhere", "This is a fully remote role", 0, "")
          EXCEPT !.url = "https://jobs/1"],
      [Result("Backend Engineer", "Remote, UK", "This is a fully remote role", 0, "")
          EXCEPT !.url = "https://jobs/1"],
      [Result("Remote Solutions ARCHITECT", "Anywhere", "This is a fully remote role", 0, "")
          EXCEPT !.url = "https://jobs/2"],
      [Result("Remote Python Developer", "Remote, UK", "This is a fully remote role", 0, "")
          EXCEPT !.url = ""] }

MainResponses ==
    { NoResponse }
    \cup { [ok |-> TRUE, results |-> r] :
             r \in UNION { [1..n -> MainResults] : n \in 0..MaxResults } }

\* scrapers, lines 401-405: Reed first, then Adzuna
EnabledScrapers(reed, adzuna) ==
    (IF reed THEN <<"Reed">> ELSE <<>>) \o (IF adzuna THEN <<"Adzuna">> ELSE <<>>)

FilterIdle ==
    /\ fpc = "idle" /\ board = "" /\ response = NoResponse /\ jobs = <<>>
    /\ fkind = "" /\ filtered = <<>>

Init ==
    /\ FilterIdle
    /\ TailorIdle
    /\ SkillsIdle
    /\ PublishIdle
    /\ RunIdle
    /\ BulletsIdle
    /\ mpc = "searching"
    /\ quick_test \in BOOLEAN
    /\ \E reed \in BOOLEAN, adzuna \in BOOLEAN : scrapers = EnabledScrapers(reed, adzuna)
    /\ scraper_i = 1 /\ keyword_i = 1 /\ location_i = 1
    /\ found_jobs = FALSE
    /\ all_jobs = <<>> /\ unique_jobs = <<>> /\ filtered_jobs = <<>>
    /\ searched = NeverSearched
    /\ batch_i = 0 /\ job_i = 1
    /\ attempted = <<>> /\ processed_jobs = <<>> /\ listed = <<>>

\* scraper.search(keyword, location), line 420
ScraperSearch(name, resp) ==
    IF name = "Reed" THEN ReedScraper_search(resp) ELSE AdzunaScraper_search(resp)

\* Mutant: a search that returns nothing ends the searches of the run.
NextPosition_StopsOnEmpty(found) ==
    LET now_found == found_jobs \/ found IN
    IF ~found
    THEN [s |-> Len(scrapers) + 1, k |-> 1, l |-> 1, f |-> FALSE]
    ELSE IF quick_test
    THEN [s |-> scraper_i + 1, k |-> 1, l |-> 1, f |-> FALSE]
    ELSE IF location_i < Len(locations)
    THEN [s |-> scraper_i, k |-> keyword_i, l |-> location_i + 1, f |-> now_found]
    ELSE IF keyword_i < Len(keywords)
    THEN [s |-> scraper_i, k |-> keyword_i + 1, l |-> 1, f |-> now_found]
    ELSE [s |-> scraper_i + 1, k |-> 1, l |-> 1, f |-> FALSE]

\* Where the loops of lines 408-432 stand after a search at (scraper_i,
\* keyword_i, location_i) that returned found: [s, k, l, found_jobs].
\* "break" leaves the location loop; the keyword loop then ends at its next
\* test of found_jobs and quick_test, and the next adapter starts.
NextPosition(found) ==
    LET now_found == found_jobs \/ found IN
    IF found /\ quick_test
    THEN [s |-> scraper_i + 1, k |-> 1, l |-> 1, f |-> FALSE]
    ELSE IF location_i < Len(locations)
    THEN [s |-> scraper_i, k |-> keyword_i, l |-> location_i + 1, f |-> now_found]
    ELSE IF keyword_i < Len(keywords) /\ ~(now_found /\ quick_test)
    THEN [s |-> scraper_i, k |-> keyword_i + 1, l |-> 1, f |-> now_found]
    ELSE [s |-> scraper_i + 1, k |-> 1, l |-> 1, f |-> FALSE]

\* One iteration of the location loop, lines 418-432.
MainSearch ==
    /\ mpc = "searching"
    /\ scraper_i <= Len(scrapers)
    /\ \E resp \in MainResponses :
         LET found == ScraperSearch(scrapers[scraper_i], resp)
             pos == NextPosition(found # <<>>) IN
         /\ Len(all_jobs) + Len(found) <= MaxCollected
         /\ all_jobs' = all_jobs \o found
         /\ searched' = [searched EXCEPT ![scrapers[scraper_i]] = Searched(@, found # <<>>)]
         /\ scraper_i' = pos.s
         /\ keyword_i' = pos.k
         /\ location_i' = pos.l
         /\ found_jobs' = pos.f
    /\ UNCHANGED <<mpc, quick_test, scrapers, unique_jobs, filtered_jobs, processVars,
                   notMainVars>>

\* Lines 438-440: no adapter found a job.
MainNoJobs ==
    /\ mpc = "searching"
    /\ scraper_i > Len(scrapers)
    /\ all_jobs = <<>>
    /\ mpc' = "returned"
    /\ UNCHANGED <<quick_test, scrapers, scraper_i, keyword_i, location_i,
                   found_jobs, all_jobs, unique_jobs, filtered_jobs, searched,
                   processVars, notMainVars>>

\* Lines 442-458: the de-duplication by URL and the title filter.
MainDedupAndFilter ==
    /\ mpc = "searching"
    /\ scraper_i > Len(scrapers)
    /\ all_jobs # <<>>
    /\ unique_jobs' = MainUniqueJobs(all_jobs)
    /\ filtered_jobs' = MainFilteredJobs(MainUniqueJobs(all_jobs))
    /\ mpc' = "filtered"
    /\ UNCHANGED <<quick_test, scrapers, scraper_i, keyword_i, location_i,
                   found_jobs, all_jobs, searched, processVars, notMainVars>>

Next ==
    \/ MainSearch
    \/ MainNoJobs
    \/ MainDedupAndFilter

Spec == Init /\ [][Next]_vars

-----------------------------------------------------------------------------
(* SpecQuick: the searches of one run, either of main() (as in Spec) or of *)
(* BaseScraper.run on a new adapter, lines 84-114.                         *)

\* Mutant: only the break of the location loop, line 103.
RunPosition_InnerBreakOnly(stop) ==
    IF ~stop /\ run_l < Len(locations)
    THEN [k |-> run_k, l |-> run_l + 1, done |-> FALSE]
    ELSE IF run_k < Len(keywords)
    THEN [k |-> run_k + 1, l |-> 1, done |-> FALSE]
    ELSE [k |-> run_k, l |-> run_l, done |-> TRUE]

\* Where the loops of run(), lines 94-107, stand after a search at (run_k,
\* run_l); stop is self.quick_test and len(self.jobs) > 0, which leaves both
\* loops.
RunPosition(stop) ==
    IF stop THEN [k |-> run_k, l |-> run_l, done |-> TRUE]
    ELSE IF run_l < Len(locations)
    THEN [k |-> run_k, l |-> run_l + 1, done |-> FALSE]
    ELSE IF run_k < Len(keywords)
    THEN [k |-> run_k + 1, l |-> 1, done |-> FALSE]
    ELSE [k |-> run_k, l |-> run_l, done |-> TRUE]

InitRun ==
    /\ FilterIdle
    /\ MainIdle
    /\ TailorIdle
    /\ SkillsIdle
    /\ PublishIdle
    /\ BulletsIdle
    /\ rpc = "running"
    /\ run_board \in Boards
    /\ run_quick \in BOOLEAN
    /\ run_jobs = <<>>
    /\ run_k = 1 /\ run_l = 1
    /\ run_searched = "never"

\* One iteration of the location loop of run(), lines 96-103 and 106-107.
RunSearch ==
    /\ rpc = "running"
    /\ \E resp \in MainResponses :
         LET found == ScraperSearch(run_board, resp)
             pos == RunPosition(run_quick /\ Len(run_jobs \o found) > 0) IN
         /\ Len(run_jobs) + Len(found) <= MaxCollected
         /\ run_jobs' = run_jobs \o found
         /\ run_searched' = Searched(run_searched, found # <<>>)
         /\ run_k' = pos.k
         /\ run_l' = pos.l
         /\ rpc' = IF pos.done THEN "searched" ELSE "running"
    /\ UNCHANGED <<run_board, run_quick, notRunVars>>

\* The end of run(), lines 109-110: filter_jobs, then save_results.
RunFilterAndSave ==
    /\ rpc = "searched"
    /\ run_jobs' = BaseScraper_filter_jobs(run_jobs)
    /\ rpc' = "saved"
    /\ UNCHANGED <<run_board, run_quick, run_k, run_l, run_searched, notRunVars>>

NextRun ==
    \/ RunSearch
    \/ RunFilterAndSave

SpecQuick == (Init \/ InitRun) /\ [][Next \/ NextRun]_vars

-----------------------------------------------------------------------------
(* SpecProcess: main() from line 462 on, on any filtered list of at most   *)
(* MaxFiltered postings: the batches, process_job_application on each      *)
(* posting, whatever its outcome, and the summary.                         *)

MaxFiltered == 4

\* batch_size, line 463
batch_size == 3

\* The n-th posting a run can have found; each has a URL of its own.
PoolJob(n) ==
    [title |-> "Remote Python Developer", company |-> "Acme", location |-> "Anywhere",
     url |-> "https://jobs/" \o SubSeq("123456789", n, n), salary |-> 0,
     description |-> "This is a fully remote role",
     source |-> IF n % 2 = 1 THEN "Reed" ELSE "Adzuna"]

\* The lists the filter can return: postings under different URLs, in any
\* order.
FilteredLists ==
    { [i \in DOMAIN s |-> PoolJob(s[i])] :
        s \in { t \in UNION { [1..n -> 1..MaxFiltered] : n \in 0..MaxFiltered } :
                  \A i, j \in DOMAIN t : t[i] = t[j] => i = j } }

InitProcess ==
    /\ FilterIdle
    /\ TailorIdle
    /\ SkillsIdle
    /\ PublishIdle
    /\ RunIdle
    /\ BulletsIdle
    /\ mpc = "filtered"
    /\ quick_test \in BOOLEAN
    /\ scrapers = <<"Reed", "Adzuna">>
    /\ scraper_i = 3 /\ keyword_i = 1 /\ location_i = 1
    /\ found_jobs = FALSE
    /\ filtered_jobs \in FilteredLists
    /\ filtered_jobs # <<>>
    /\ all_jobs = filtered_jobs
    /\ unique_jobs = filtered_jobs
    /\ searched = NeverSearched
    /\ batch_i = 0 /\ job_i = 1
    /\ attempted = <<>> /\ processed_jobs = <<>> /\ listed = <<>>

\* Mutant: a batch that takes one posting more than batch_size.
Batch_OneMore(list, i) ==
    SubSeq(list, i + 1, IF i + batch_size + 1 <= Len(list) THEN i + batch_size + 1 ELSE Len(list))

\* filtered_jobs[i:i + batch_size], line 465
Batch(list, i) ==
    SubSeq(list, i + 1, IF i + batch_size <= Len(list) THEN i + batch_size ELSE Len(list))

\* What process_job_application returns, lines 343-348 and 380: job_data,
\* updated.
ProcessedJob(job) == [job |-> job, status |-> "Resume Generated"]

\* One iteration of the loop over a batch, lines 468-492.  The call of
\* process_job_application returns or raises; when it returns, the job is
\* appended before its JSON file is written, which may raise as well.  Every
\* exception is logged and the loop continues.
MainProcessJob ==
    /\ mpc = "filtered"
    /\ batch_i < Len(filtered_jobs)
    /\ LET batch == Batch(filtered_jobs, batch_i)
           job == batch[job_i] IN
       /\ attempted' = Append(attempted, job)
       /\ \E outcome \in {"returned", "raised", "not_saved"} :
            processed_jobs' = IF outcome = "raised" THEN processed_jobs
                              ELSE Append(processed_jobs, ProcessedJob(job))
       /\ IF job_i < Len(batch)
          THEN job_i' = job_i + 1 /\ UNCHANGED batch_i
          ELSE job_i' = 1 /\ batch_i' = batch_i + batch_size
    /\ UNCHANGED <<mpc, quick_test, scrapers, scraper_i, keyword_i, location_i,
                   found_jobs, all_jobs, unique_jobs, filtered_jobs, searched,
                   listed, notMainVars>>

\* The summary, lines 498-514: one entry for each job of processed_jobs.
MainSummary ==
    /\ mpc = "filtered"
    /\ batch_i >= Len(filtered_jobs)
    /\ listed' = [k \in DOMAIN processed_jobs |->
                      [title |-> processed_jobs[k].job.title,
                       url |-> processed_jobs[k].job.url,
                       status |-> processed_jobs[k].status]]
    /\ mpc' = "summarized"
    /\ UNCHANGED <<quick_test, scrapers, scraper_i, keyword_i, location_i,
                   found_jobs, all_jobs, unique_jobs, filtered_jobs, searched,
                   batch_i, job_i, attempted, processed_jobs, notMainVars>>

NextProcess ==
    \/ MainProcessJob
    \/ MainSummary

SpecProcess == InitProcess /\ [][NextProcess]_vars

-----------------------------------------------------------------------------
(* SpecTailor: the generators made from one resume file, the calls of      *)
(* generate_tailored_resume on them, and what process_job_application and  *)
(* the document generator do with the dict it returns.                     *)

\* One generator answers at most MaxCalls calls of generate_tailored_resume.
MaxCalls == 2

\* The resume files: the skills as a category map, a list or a string, and
\* one or two experience entries.
BaseExperience ==
    { <<Experience("Developer", <<"Built APIs">>)>>,
      <<Experience("Developer", <<"Built APIs">>),
        Experience("Analyst", <<"Wrote reports", "Ran audits">>)>> }

BaseResumes ==
    { Resume("Engineer with five years of experience.", sk, ex) :
        sk \in BaseSkills, ex \in BaseExperience }

\* The jobs a resume is tailored to.
TailorJobs == { "Remote Python Developer", "Backend Engineer" }

InitTailor ==
    /\ FilterIdle
    /\ MainIdle
    /\ SkillsIdle
    /\ PublishIdle
    /\ RunIdle
    /\ BulletsIdle
    /\ tpc = "fresh"
    /\ loaded \in BaseResumes
    /\ resume_data = loaded
    /\ tailored = NoTailored
    /\ returned_base = FALSE
    /\ llm = NoCall
    /\ calls = 0
    /\ prompts = NoPrompts
    /\ document = NoDocument

\* The dict generate_tailored_resume returned, as its caller reads it: its
\* own keys (a shallow copy) or those of self.resume_data. Its "experience"
\* is in both cases the list of self.resume_data.
Returned ==
    IF returned_base
    THEN [summary |-> resume_data.summary, skills |-> resume_data.skills,
          metadata |-> resume_data.metadata]
    ELSE tailored

ReturnedExperience == resume_data.experience

\* OpenAIResumeGenerator(resume_data_path), main.py line 276: the file is
\* read again.
NewGenerator ==
    /\ tpc \in {"tailored", "call_raised", "annotated", "raised", "assembled"}
    /\ tpc' = "fresh"
    /\ resume_data' = loaded
    /\ tailored' = NoTailored
    /\ returned_base' = FALSE
    /\ llm' = NoCall
    /\ calls' = 0
    /\ prompts' = NoPrompts
    /\ document' = NoDocument
    /\ UNCHANGED <<loaded, notTailorVars>>

\* generate_tailored_resume(job_description), lines 46-64
GenerateTailoredResume ==
    /\ tpc \in {"fresh", "tailored", "call_raised", "annotated", "raised", "assembled"}
    /\ calls < MaxCalls
    /\ \E job \in TailorJobs, sa \in SummaryAnswers, ka \in SkillsAnswers,
          ba \in [DOMAIN resume_data.experience -> BulletAnswers] :
         LET summary == generate_summary(resume_data.summary, sa)
             skills == generate_skills_section(resume_data.skills, ka)
             experience ==
                 [i \in DOMAIN resume_data.experience |->
                    [resume_data.experience[i] EXCEPT
                       !.description = generate_experience_bullets(@, ba[i])]] IN
         IF generate_tailored_resume_returns(skills.raised) = "raise"
         THEN /\ tpc' = "call_raised"
              /\ returned_base' = FALSE
              /\ tailored' = NoTailored
              /\ llm' = [job |-> job, summary |-> sa, skills |-> NotAsked,
                         bullets |-> [i \in DOMAIN resume_data.experience |-> NotAsked]]
              /\ prompts' = [summary |-> resume_data.summary, bullets |-> <<>>]
              /\ UNCHANGED resume_data
         ELSE IF generate_tailored_resume_returns(skills.raised) = "base"
         THEN /\ tpc' = "tailored"
              /\ returned_base' = TRUE
              /\ tailored' = NoTailored
              /\ llm' = [job |-> job, summary |-> sa, skills |-> NotAsked,
                         bullets |-> [i \in DOMAIN resume_data.experience |-> NotAsked]]
              /\ prompts' = [summary |-> resume_data.summary, bullets |-> <<>>]
              /\ UNCHANGED resume_data
         ELSE /\ tpc' = "tailored"
              /\ returned_base' = FALSE
              /\ tailored' = [summary |-> summary, skills |-> skills.value,
                              metadata |-> resume_data.metadata]
              /\ llm' = [job |-> job, summary |-> sa, skills |-> ka, bullets |-> ba]
              /\ prompts' = [summary |-> resume_data.summary,
                              bullets |-> [i \in DOMAIN resume_data.experience |->
                                             resume_data.experience[i].description]]
              /\ resume_data' = [resume_data EXCEPT !.experience = experience]
    /\ calls' = calls + 1
    /\ document' = NoDocument
    /\ UNCHANGED <<loaded, notTailorVars>>

\* tailored_resume['skills'][:100], main.py line 306: None and a dict take no
\* slice.
SkillsSliceRaises == skills_slice_raises(Returned.skills)

\* process_job_application, lines 303-318: the log line, then the metadata
\* written into the dict generate_tailored_resume returned.
AddMetadata ==
    /\ tpc = "tailored"
    /\ IF SkillsSliceRaises
       THEN /\ tpc' = "raised"
            /\ UNCHANGED <<resume_data, tailored>>
       ELSE /\ tpc' = "annotated"
            /\ IF returned_base
               THEN /\ resume_data' = [resume_data EXCEPT !.metadata = llm.job]
                    /\ UNCHANGED tailored
               ELSE /\ tailored' = [tailored EXCEPT !.metadata = llm.job]
                    /\ UNCHANGED resume_data
    /\ UNCHANGED <<loaded, returned_base, llm, calls, prompts, document, notTailorVars>>

\* _create_basic_resume, lines 380-409: the 'List Bullet' paragraphs of each
\* experience entry, one per point of its description, however many.
RenderExperience(experience) ==
    [i \in DOMAIN experience |-> experience[i].description]

\* DocxResumeGenerator.generate_resume_file(tailored_resume), lines 774-798,
\* and create_resume: called at main.py line 330, and on the returned dict
\* as it is at main.py line 151.  The summary and the skills are those of
\* tailored_resume; the experience is self.resume_data's, which __init__
\* (lines 70-76) read from the resume file.
GenerateResumeFile ==
    /\ tpc \in {"tailored", "annotated"}
    /\ document' = [summary |-> Returned.summary,
                    skills |-> create_resume_skills(Returned.skills),
                    experience |-> RenderExperience(loaded.experience)]
    /\ tpc' = "assembled"
    /\ UNCHANGED <<loaded, resume_data, tailored, returned_base, llm, calls,
                   prompts, notTailorVars>>

NextTailor ==
    \/ NewGenerator
    \/ GenerateTailoredResume
    \/ AddMetadata
    \/ GenerateResumeFile

SpecTailor == InitTailor /\ [][NextTailor]_vars

-----------------------------------------------------------------------------
(* SpecBullets: one call of _generate_experience_bullets, lines 231-284,   *)
(* on an experience entry, with an answer of up to MaxLines lines.         *)

\* The lines of an answer
MaxLines == 3

\* What the language model may write on a line of its answer.
AnswerLines ==
    { "@ Led API work", "- Cut costs 20%", "  * Shipped  ", "", "-", "- - Ran audits" }

RECURSIVE AnswersOf(_)
AnswersOf(n) ==
    IF n = 0 THEN { "" }
    ELSE { l \o "\n" \o rest : l \in AnswerLines, rest \in AnswersOf(n - 1) }

\* The answers to the bullets request: no answer, or a text of one to
\* MaxLines lines.
BulletsContents ==
    { LLMError } \cup { LLMAnswer(c) : c \in UNION { AnswersOf(n) : n \in 1..MaxLines } }

\* experience_item["description"] of the entry the bullets are asked for
EntryDescription == <<"Built APIs">>

InitBullets ==
    /\ FilterIdle
    /\ MainIdle
    /\ TailorIdle
    /\ SkillsIdle
    /\ PublishIdle
    /\ RunIdle
    /\ bpc = "asking"
    /\ bullets_in = NotAsked
    /\ bullets_out = <<>>

\* _generate_experience_bullets(job_description, experience_item)
GenerateExperienceBullets ==
    /\ bpc = "asking"
    /\ \E answer \in BulletsContents :
         /\ bullets_in' = answer
         /\ bullets_out' = generate_experience_bullets(EntryDescription, answer)
    /\ bpc' = "returned"
    /\ UNCHANGED notBulletsVars

\* The next entry of the loop of generate_tailored_resume, lines 55-56
NextExperienceEntry ==
    /\ bpc = "returned"
    /\ bpc' = "asking"
    /\ bullets_in' = NotAsked
    /\ bullets_out' = <<>>
    /\ UNCHANGED notBulletsVars

NextBullets ==
    \/ GenerateExperienceBullets
    \/ NextExperienceEntry

SpecBullets == InitBullets /\ [][NextBullets]_vars

-----------------------------------------------------------------------------
(* SpecSkills: one skills value, in each of its three shapes, and the      *)
(* normal form each piece of code that reads it turns it into.             *)

\* A list of skills has at most MaxSkills entries.
MaxSkills == 2

SkillNames == { "Python", "SQL" }

SkillLists == UNION { [1..n -> SkillNames] : n \in 0..MaxSkills }

\* The three shapes: a flat list, a category map, a delimited string.
SkillsInputs ==
    { PyList(l) : l \in SkillLists }
    \cup { PyDict(<<Item(c, l)>>) : c \in {"languages", "Languages", "git"}, l \in SkillLists }
    \cup { PyDict(<<Item("languages", l), Item("git", g)>>) :
             l \in SkillLists \ {<<>>}, g \in { k \in SkillLists : Len(k) <= 1 } }
    \cup { PyStr(Join(l, ", ")) : l \in SkillLists }

InitSkills ==
    /\ FilterIdle
    /\ MainIdle
    /\ TailorIdle
    /\ PublishIdle
    /\ RunIdle
    /\ BulletsIdle
    /\ npc = "input"
    /\ skills_in \in SkillsInputs
    /\ normalizer = ""
    /\ normal_text = ""
    /\ normal_paras = <<>>
    /\ templated = NoTemplate

\* The text, and the paragraphs, a piece of code turns a skills value into.
NormalText(by, skills) ==
    CASE by = "format_original_skills" -> format_original_skills(skills.d)
      [] by = "current_skills" -> current_skills(skills)
      [] OTHER -> ""

NormalParas(by, skills) ==
    IF by = "create_basic_resume" THEN create_basic_resume_skills(skills) ELSE <<>>

\* resume_generator: _format_original_skills, on a category map
FormatOriginalSkills ==
    /\ npc = "input"
    /\ skills_in.shape = "dict"
    /\ normalizer' = "format_original_skills"
    /\ normal_text' = NormalText("format_original_skills", skills_in)
    /\ npc' = "normalized"
    /\ UNCHANGED <<skills_in, normal_paras, templated, notSkillsVars>>

\* generators: generate_tailored_resume, lines 97-107
CurrentSkills ==
    /\ npc = "input"
    /\ normalizer' = "current_skills"
    /\ normal_text' = NormalText("current_skills", skills_in)
    /\ npc' = "normalized"
    /\ UNCHANGED <<skills_in, normal_paras, templated, notSkillsVars>>

\* document_creator: _create_basic_resume, lines 283-329
CreateBasicResume ==
    /\ npc = "input"
    /\ normalizer' = "create_basic_resume"
    /\ normal_paras' = NormalParas("create_basic_resume", skills_in)
    /\ npc' = "normalized"
    /\ UNCHANGED <<skills_in, normal_text, templated, notSkillsVars>>

\* What DocxTemplate(self.template_path) and doc.render(context) do: the
\* template renders, the file is missing (or template_path is None), or the
\* rendering raises.
TemplateOutcomes == { "rendered", "missing", "render_error" }

create_template_resume_Raises(outcome, skills) ==
    IF outcome = "rendered"
    THEN [raised |-> FALSE, layout |-> "template", paras |-> <<>>]
    ELSE [raised |-> TRUE, layout |-> "", paras |-> <<>>]

\* _create_template_resume, lines 419-448: the document of the template,
\* whose paragraphs are the template file's, or what _create_basic_resume
\* makes of the same resume_data.
create_template_resume(outcome, skills) ==
    IF outcome = "rendered"
    THEN [raised |-> FALSE, layout |-> "template", paras |-> <<>>]
    ELSE [raised |-> FALSE, layout |-> "basic",
          paras |-> create_basic_resume_skills(skills)]

\* document_creator: _create_template_resume(resume_data)
CreateTemplateResume ==
    /\ npc = "input"
    /\ \E outcome \in TemplateOutcomes :
         LET doc == create_template_resume(outcome, skills_in) IN
         /\ templated' = [outcome |-> outcome, raised |-> doc.raised, layout |-> doc.layout]
         /\ normal_paras' = doc.paras
    /\ normalizer' = "create_template_resume"
    /\ npc' = "templated"
    /\ UNCHANGED <<skills_in, normal_text, notSkillsVars>>

NextSkills ==
    \/ FormatOriginalSkills
    \/ CurrentSkills
    \/ CreateBasicResume
    \/ CreateTemplateResume

SpecSkills == InitSkills /\ [][NextSkills]_vars

-----------------------------------------------------------------------------
(* SpecPublish: the Jobs sheet under the calls of add_jobs, by scrape_jobs *)
(* (main.py line 99) on the postings of all the boards and by              *)
(* process_job_application (line 371) on the job it processed.             *)

\* The sheet holds at most MaxRows rows, a call of add_jobs at most MaxBatch
\* jobs.
MaxRows == 3
MaxBatch == 2

\* Postings as the adapters return them.
PublishJobs ==
    { [title |-> "Remote Python Developer", company |-> "Acme", location |-> "Remote",
       url |-> "https://jobs.example/1"],
      [title |-> "Backend Engineer", company |-> "Initech", location |-> "Remote, UK",
       url |-> "https://jobs.example/2"] }

Batches == UNION { [1..n -> PublishJobs] : n \in 1..MaxBatch }

\* The skills of the dict generate_tailored_resume returned: the text of a
\* parsed answer, the list of a base resume, or None.
TailoredSkills == { PyStr("Languages\nPython, SQL"), PyList(<<"Python", "SQL">>), PyNone }

InitPublish ==
    /\ FilterIdle
    /\ MainIdle
    /\ TailorIdle
    /\ SkillsIdle
    /\ RunIdle
    /\ BulletsIdle
    /\ ppc = "start"
    /\ sheet = <<>>
    /\ appended = <<>>
    /\ created = NoCreated
    /\ drive_url = NotCalled
    /\ processed = NotProcessed
    /\ resume_jobs = NotRead
    /\ last_update = NoUpdate
    /\ stored = {}

\* sheets_manager.add_jobs(jobs), as scrape_jobs calls it
AddJobs ==
    /\ \E batch \in Batches, read_ok \in BOOLEAN, append_ok \in BOOLEAN :
         /\ Len(sheet) + Len(batch) <= MaxRows
         /\ LET wrote == add_jobs(sheet, batch, read_ok, append_ok) IN
            /\ sheet' = wrote.sheet
            /\ appended' = wrote.appended
    /\ ppc' = "added"
    /\ created' = NoCreated
    /\ drive_url' = NotCalled
    /\ processed' = NotProcessed
    /\ resume_jobs' = NotRead
    /\ last_update' = NoUpdate
    /\ UNCHANGED <<stored, notPublishVars>>

\* process_job_application(job_data), main.py lines 265-384, from the dict
\* generate_tailored_resume returned on: the log line of its skills, the
\* file (generate_resume_file, which ends in create_resume), the upload and
\* the row.  Any exception is logged and raised again (lines 382-384).
ProcessJobApplication ==
    /\ Len(sheet) < MaxRows
    /\ \E job_data \in PublishJobs, skills \in TailoredSkills,
          save_ok \in BOOLEAN, drive_service \in BOOLEAN, upload_ok \in BOOLEAN,
          reupload_ok \in BOOLEAN, share_ok \in BOOLEAN,
          read_ok \in BOOLEAN, append_ok \in BOOLEAN :
         LET made == create_resume(save_ok, drive_service, upload_ok)
             url == upload_to_google_drive(drive_service, reupload_ok, share_ok)
             updated == ("resume_path" :> made.path) @@ ("resume_drive_url" :> url)
                        @@ ("status" :> "Resume Generated") @@ job_data
             wrote == add_jobs(sheet, <<sheet_data(updated, url)>>, read_ok, append_ok)
         IN
         IF skills_slice_raises(skills)
         THEN /\ processed' = [raised |-> TRUE, job_data |-> job_data]
              /\ created' = NoCreated
              /\ drive_url' = NotCalled
              /\ appended' = <<>>
              /\ UNCHANGED sheet
         ELSE IF made.raised \/ ~Truthy(made.path)
         THEN /\ processed' = [raised |-> TRUE, job_data |-> job_data]
              /\ created' = made
              /\ drive_url' = NotCalled
              /\ appended' = <<>>
              /\ UNCHANGED sheet
         ELSE IF ~Truthy(url)
         THEN /\ processed' = [raised |-> TRUE, job_data |-> job_data]
              /\ created' = made
              /\ drive_url' = url
              /\ appended' = <<>>
              /\ UNCHANGED sheet
         ELSE /\ processed' =
                    [raised |-> FALSE,
                     job_data |-> IF wrote.added # <<>>
                                  THEN ("sheets_status" :> "Added") @@ updated
                                  ELSE updated]
              /\ created' = made
              /\ drive_url' = url
              /\ appended' = wrote.appended
              /\ sheet' = wrote.sheet
    /\ ppc' = "processed"
    /\ resume_jobs' = NotRead
    /\ last_update' = NoUpdate
    /\ UNCHANGED <<stored, notPublishVars>>

\* The calls of update_job: the URL of a posting, tracked or not, and the
\* columns generate_resumes or an operator sets.
UpdateUrls == { job.url : job \in PublishJobs } \cup { "https://jobs.example/9" }

UpdatesSet ==
    { "Custom Resume URL" :> WebViewLink,
      "Application Status" :> "Applied",
      "Notes" :> "call back" }

\* sheets_manager.update_job(job_url, updates)
UpdateJob ==
    /\ sheet # <<>>
    /\ \E job_url \in UpdateUrls, updates \in UpdatesSet,
          read_ok \in BOOLEAN, write_ok \in BOOLEAN :
         LET wrote == update_job(sheet, job_url, updates, read_ok, write_ok) IN
         /\ sheet' = wrote.sheet
         /\ last_update' = [job_url |-> job_url, updated |-> wrote.updated]
         /\ stored' = IF wrote.updated /\ "Custom Resume URL" \in DOMAIN updates
                       THEN stored \cup {job_url} ELSE stored
    /\ ppc' = "updated"
    /\ resume_jobs' = NotRead
    /\ UNCHANGED <<appended, created, drive_url, processed, notPublishVars>>

\* sheets_manager.get_jobs_for_resume_generation()
GetJobsForResumeGeneration ==
    /\ sheet # <<>>
    /\ \E read_ok \in BOOLEAN :
         resume_jobs' = [called |-> TRUE, read_ok |-> read_ok,
                         jobs |-> get_jobs_for_resume_generation(sheet, read_ok)]
    /\ ppc' = "got"
    /\ last_update' = NoUpdate
    /\ UNCHANGED <<sheet, appended, created, drive_url, processed, stored,
                   notPublishVars>>

\* generate_resumes(args), main.py lines 104-172, without max_resumes: the
\* jobs that need a resume are read once, then each is given one and its row
\* is updated.
GenerateResumes ==
    /\ sheet # <<>>
    /\ \E read_ok \in BOOLEAN :
         LET jobs_for_resumes == get_jobs_for_resume_generation(sheet, read_ok) IN
         \E outcomes \in [DOMAIN jobs_for_resumes ->
                             {"stored", "no_resume", "read_failed", "write_failed"}] :
            LET ran == GenerateLoop(sheet, stored, jobs_for_resumes, outcomes, 1) IN
            /\ sheet' = ran.sheet
            /\ stored' = ran.stored
            /\ resume_jobs' = [called |-> TRUE, read_ok |-> read_ok,
                                jobs |-> jobs_for_resumes]
    /\ ppc' = "generated"
    /\ last_update' = NoUpdate
    /\ UNCHANGED <<appended, created, drive_url, processed, notPublishVars>>

NextPublish ==
    \/ AddJobs
    \/ ProcessJobApplication

\* The sheet under scrape_jobs and generate_resumes.
NextResumes ==
    \/ AddJobs
    \/ UpdateJob
    \/ GetJobsForResumeGeneration
    \/ GenerateResumes

SpecResumes == InitPublish /\ [][NextResumes]_vars

SpecPublish == InitPublish /\ [][NextPublish]_vars

-----------------------------------------------------------------------------
(* Claims about the adapters and the filters (SpecFilter)                  *)

\* The posting an adapter builds from result job, whichever adapter it is.
IsPostingOf(posting, job) ==
    /\ posting.title = job.title
    /\ posting.location = job.location
    /\ posting.description = job.description
    /\ posting.url = job.url

TitleHasExcludedKeyword(title) ==
    \E k \in DOMAIN excluded_keywords :
        Contains(Lower(title), Lower(excluded_keywords[k]))

PositiveRemotePhrases ==
    Range(adzuna_remote_indicators) \cup Range(reed_remote_indicators)

NegativePhrases == Range(adzuna_exclude_indicators)

HasNoRemoteIndicator(job) ==
    /\ ~Contains(Lower(job.title), "remote")
    /\ ~Contains(Lower(job.location), "remote")
    /\ \A p \in PositiveRemotePhrases : ~Contains(Lower(job.description), p)

HasNegativePhrase(job) ==
    \E p \in NegativePhrases : Contains(Lower(job.description), p)

\* C2: a posting whose title contains an excluded keyword, in any letter
\* case, is in the output of none of the three filters: AdzunaScraper.search,
\* BaseScraper.filter_jobs and the title filter of main().
C2_ExcludedTitleNeverPasses ==
    /\ (fpc = "searched" /\ board = "Adzuna") =>
           \A i \in DOMAIN jobs : ~TitleHasExcludedKeyword(jobs[i].title)
    /\ fkind = "filter_jobs" =>
           \A i \in DOMAIN filtered : ~TitleHasExcludedKeyword(filtered[i].title)
    /\ fkind = "main" =>
           \A i \in DOMAIN filtered : ~TitleHasExcludedKeyword(filtered[i].title)

\* The filter of main() was given a posting with an excluded title (one that
\* Reed's own keyword list let through) next to one it keeps.
C2_Witness ==
    /\ fkind = "main"
    /\ Len(jobs) = 2
    /\ jobs[1].title = "Remote Solutions ARCHITECT"
    /\ jobs[1].url # jobs[2].url
    /\ filtered = <<jobs[2]>>

\* C24: a posting whose title or whose description contains a configured
\* excluded keyword, in any letter case, passes neither BaseScraper.filter_jobs
\* nor the filter of main().
C24_ExcludedKeywordAnywhereDropped ==
    fkind \in {"filter_jobs", "main"} =>
        \A i \in DOMAIN filtered :
            /\ ~TitleHasExcludedKeyword(filtered[i].title)
            /\ ~TitleHasExcludedKeyword(filtered[i].description)

\* C25: ReedScraper.search returns a posting only if its title or location
\* contains "remote" or its description a positive remote phrase, and its
\* description contains none of the negative phrases.
C25_ReedAppliesRemotePolicy ==
    (fpc = "searched" /\ board = "Reed") =>
        \A i \in DOMAIN jobs :
            /\ ~HasNoRemoteIndicator(jobs[i])
            /\ ~HasNegativePhrase(jobs[i])

\* C5: a posting with "remote" neither in its title nor in its location and
\* with no positive remote phrase in its description is returned by neither
\* AdzunaScraper.search nor ReedScraper.search.
C5_NoIndicatorNeverReturned ==
    fpc = "searched" => \A i \in DOMAIN jobs : ~HasNoRemoteIndicator(jobs[i])

\* The response held the posting "Backend Engineer" / "New York" /
\* "Collaborate daily in our NYC office" next to a posting that was returned.
C5_Witness ==
    /\ fpc = "searched"
    /\ \E i \in DOMAIN response.results :
         response.results[i] =
             Result("Backend Engineer", "New York", "Collaborate daily in our NYC office", 0, "")
    /\ Len(jobs) = 1

\* C6: when every result of the response carries its fields,
\* AdzunaScraper.search returns every result whose title contains "remote" in
\* any letter case, whose title has no excluded keyword and whose description
\* has no negative phrase, whatever its location.
C6_RemoteTitleReturned ==
    (fpc = "searched" /\ board = "Adzuna" /\ response.ok
        /\ \A i \in DOMAIN response.results : response.results[i].missing = "") =>
    \A i \in DOMAIN response.results :
        LET job == response.results[i] IN
        (/\ Contains(Lower(job.title), "remote")
         /\ ~TitleHasExcludedKeyword(job.title)
         /\ ~HasNegativePhrase(job)) =>
        \E j \in DOMAIN jobs : IsPostingOf(jobs[j], job) /\ jobs[j].source = "Adzuna"

\* "Remote Python Developer" / "Anywhere" / "... fully remote ..." was in the
\* response, after a result that was dropped, and is the one posting returned.
C6_Witness ==
    /\ fpc = "searched" /\ board = "Adzuna"
    /\ Len(response.results) = 2
    /\ response.results[2] =
           Result("Remote Python Developer", "Anywhere", "This is a fully remote role", 0, "")
    /\ Len(jobs) = 1
    /\ IsPostingOf(jobs[1], response.results[2])

\* C7: AdzunaScraper.search returns no posting whose description contains a
\* negative phrase, whatever positive indicator its title, location or
\* description also holds.
C7_NegativeWins ==
    (fpc = "searched" /\ board = "Adzuna") =>
        \A i \in DOMAIN jobs : ~HasNegativePhrase(jobs[i])

\* A result with "remote" in its title and location and "Remote work but must
\* relocate" in its description was dropped, and another result was returned.
C7_Witness ==
    /\ fpc = "searched" /\ board = "Adzuna"
    /\ \E i \in DOMAIN response.results :
         response.results[i] =
             Result("Remote Python Developer", "Remote, UK",
                    "Remote work but must relocate to Austin", 0, "")
    /\ Len(jobs) = 1
    /\ ~HasNegativePhrase(jobs[1])

-----------------------------------------------------------------------------
(* Claims about main() (Spec)                                              *)

\* The URLs present in the collected postings.
UrlsPresent == { all_jobs[i].url : i \in DOMAIN all_jobs } \ { "", None }

\* The first posting collected under URL u.
FirstCollected(u) ==
    CHOOSE i \in DOMAIN all_jobs :
        all_jobs[i].url = u /\ \A j \in 1..(i - 1) : all_jobs[j].url # u

\* C1: the de-duplicated list of main() holds, for each URL present in the
\* collected postings, exactly one posting, the first one collected under that
\* URL, and holds them in collection order.
C1_DedupKeepsFirstPerUrl ==
    mpc = "filtered" =>
        /\ \A u \in UrlsPresent :
             /\ Cardinality({ k \in DOMAIN unique_jobs : unique_jobs[k].url = u }) = 1
             /\ \E k \in DOMAIN unique_jobs : unique_jobs[k] = all_jobs[FirstCollected(u)]
        /\ \A k \in DOMAIN unique_jobs : unique_jobs[k].url \in UrlsPresent
        /\ \A k1, k2 \in DOMAIN unique_jobs :
             k1 < k2 => FirstCollected(unique_jobs[k1].url) < FirstCollected(unique_jobs[k2].url)

\* Three postings were collected, the first and the third under one URL and
\* with different titles; the first and the second are kept.
C1_Witness ==
    /\ mpc = "filtered"
    /\ Len(all_jobs) = 3
    /\ all_jobs[1].url = all_jobs[3].url
    /\ all_jobs[1].title # all_jobs[3].title
    /\ all_jobs[2].url # all_jobs[1].url
    /\ unique_jobs = <<all_jobs[1], all_jobs[2]>>

\* C21: a board whose searches fail or return nothing does not end the run:
\* when the searches are over every configured board has been searched, and
\* the postings the other boards returned are still in the collected list,
\* from which the de-duplicated list is made.
C21_FailedBoardIsSkipped ==
    /\ \A b \in Boards :
         searched[b] \in {"found", "again"} =>
             \E i \in DOMAIN all_jobs : all_jobs[i].source = b
    /\ mpc # "searching" =>
         \A s \in DOMAIN scrapers : searched[scrapers[s]] # "never"
    /\ mpc = "filtered" =>
         \A i \in DOMAIN all_jobs :
             Truthy(all_jobs[i].url) =>
                 \E k \in DOMAIN unique_jobs : unique_jobs[k].url = all_jobs[i].url

\* No search of Reed returned a job, Adzuna was searched after it, and what
\* it returned reached the filter.
C21_Witness ==
    /\ mpc = "filtered"
    /\ scrapers = <<"Reed", "Adzuna">>
    /\ searched["Reed"] = "empty"
    /\ searched["Adzuna"] = "found"
    /\ \E i \in DOMAIN all_jobs : all_jobs[i].source = "Adzuna"

\* C26: in quick test mode a run stops searching a board once a search on
\* it has returned a job: no search is made on a board after one that found
\* jobs, in main() and in BaseScraper.run.
C26_QuickTestStopsAfterFirstFind ==
    /\ quick_test => \A b \in Boards : searched[b] # "again"
    /\ run_quick => run_searched # "again"

\* In quick test mode the first search of run() found nothing and the second
\* found a job; the run ended there, with three searches left.
C26_Witness ==
    /\ rpc = "saved"
    /\ run_quick
    /\ run_searched = "found"
    /\ run_k = 1 /\ run_l = 2

-----------------------------------------------------------------------------
(* Claims about the processing loop of main() (SpecProcess)                *)

\* C22: main() calls process_job_application on every posting that passed
\* the filter, once each and in the order of the filtered list, whatever the
\* batches and whether or not the processing of an earlier posting failed.
C22_EveryFilteredJobProcessedOnce ==
    /\ Len(attempted) <= Len(filtered_jobs)
    /\ attempted = SubSeq(filtered_jobs, 1, Len(attempted))
    /\ mpc = "summarized" => attempted = filtered_jobs

\* Four postings, two batches: the first and the third failed, the second
\* and the fourth were processed.
C22_Witness ==
    /\ mpc = "summarized"
    /\ Len(filtered_jobs) = 4
    /\ attempted = filtered_jobs
    /\ Len(processed_jobs) = 2
    /\ processed_jobs[1].job = filtered_jobs[2]
    /\ processed_jobs[2].job = filtered_jobs[4]

\* C23: the summary of the run lists every posting that passed the filter,
\* those whose processing failed included.
C23_SummaryListsEveryFilteredJob ==
    mpc = "summarized" =>
        \A i \in DOMAIN filtered_jobs :
            \E k \in DOMAIN listed : listed[k].url = filtered_jobs[i].url

-----------------------------------------------------------------------------
(* Claims about the resume generator and the document (SpecTailor)         *)

\* A call of generate_tailored_resume has returned.
CallReturned == tpc \in {"tailored", "annotated", "raised", "assembled"}

\* The request for the summary, or for the bullets of entry i, ended in an
\* error.
SummaryCallFailed == llm.summary = LLMError
BulletsCallFailed(i) == llm.bullets[i] = LLMError

\* The answer to the skills request lacks one of the marks the section is cut at.
SkillsAnswerUnparsed ==
    /\ llm.skills.ok
    /\ ~(ContainsRec(llm.skills.content, "Programming Languages")
         /\ ContainsRec(llm.skills.content, "Scrum"))

\* C3: when the request for the summary, or for one entry's bullets, ends in
\* an error, that field of the tailored resume is the field of the resume as
\* loaded, and every other field is what its own step produced.
C3_FailedCallKeepsOriginalField ==
    tpc = "tailored" =>
        /\ SummaryCallFailed => Returned.summary = loaded.summary
        /\ \A i \in DOMAIN llm.bullets :
             BulletsCallFailed(i) =>
                 ReturnedExperience[i].description = loaded.experience[i].description
        /\ (SummaryCallFailed \/ \E i \in DOMAIN llm.bullets : BulletsCallFailed(i)) =>
             /\ llm.summary.ok => Returned.summary = Strip(llm.summary.content)
             /\ llm.skills # NotAsked =>
                  Returned.skills = generate_skills_section(loaded.skills, llm.skills).value
             /\ \A j \in DOMAIN llm.bullets :
                  llm.bullets[j].ok =>
                      ReturnedExperience[j].description
                          = CleanBullets(Split(Strip(llm.bullets[j].content), "\n"))

\* C4: when the skills step fails, by an error of the request or by an answer
\* that cannot be cut into its sections, the skills of the tailored resume are
\* the skills of the resume as loaded.
C4_FailedSkillsKeepOriginal ==
    (tpc = "tailored" /\ (llm.skills = LLMError \/ SkillsAnswerUnparsed)) =>
        Returned.skills = loaded.skills

\* C8: with the skills {"languages": ["Python", "SQL"], "git": []} and the
\* answer "Languages:\nPython, SQL, JavaScript\n\nGit", the processing of the
\* job ends with a document whose skills section is the category Languages,
\* its three skills joined by commas, and the label Git alone.
C8_ExampleSkillsRendered ==
    (/\ tpc \in {"raised", "assembled"}
     /\ loaded.skills = PyDict(<<Item("languages", <<"Python", "SQL">>), Item("git", <<>>)>>)
     /\ llm.skills = LLMAnswer("Languages:\nPython, SQL, JavaScript\n\nGit")) =>
        document.skills = <<Para("Languages", TRUE),
                            Para("Python, SQL, JavaScript", FALSE),
                            Para("Git", TRUE)>>

\* C10: after any call of generate_tailored_resume the generator's resume
\* is the resume as loaded, and the dict returned is not the generator's own.
C10_BaseResumeNeverChanges ==
    CallReturned => (resume_data = loaded /\ ~returned_base)

\* C11: in every call made on one generator, the resume text put into the
\* prompts, and the value a failed request falls back to, are those of the
\* resume as loaded: nothing produced for an earlier job enters a later one.
C11_NoTextCrossesJobs ==
    tpc = "tailored" =>
        /\ prompts.summary = loaded.summary
        /\ \A i \in DOMAIN prompts.bullets :
             prompts.bullets[i] = loaded.experience[i].description
        /\ SummaryCallFailed => Returned.summary = loaded.summary
        /\ \A i \in DOMAIN llm.bullets :
             BulletsCallFailed(i) =>
                 ReturnedExperience[i].description = loaded.experience[i].description

\* C12: every call of generate_tailored_resume hands a resume record to its
\* caller and none raises, whichever requests fail and whatever the shape of
\* the skills.
C12_CallAlwaysReturns ==
    [][calls' = calls + 1 => tpc' = "tailored"]_vars

\* A call on a resume whose skills are a list, in which the summary request
\* failed too, has returned.
C12_Witness ==
    /\ tpc = "tailored"
    /\ loaded.skills.shape = "list"
    /\ llm.summary = LLMError
    /\ returned_base

\* C13: an empty or whitespace-only completion counts as a failure: the
\* summary, the skills or the bullets concerned take the value of the resume
\* as loaded, never an empty text or an empty list.
C13_EmptyCompletionFallsBack ==
    (tpc = "tailored" /\ calls = 1 /\ ~returned_base) =>
        /\ (llm.summary.ok /\ Strip(llm.summary.content) = "") =>
               Returned.summary = loaded.summary
        /\ (llm.skills.ok /\ Strip(llm.skills.content) = "") =>
               Returned.skills = loaded.skills
        /\ \A i \in DOMAIN llm.bullets :
             (llm.bullets[i].ok /\ Strip(llm.bullets[i].content) = "") =>
                 ReturnedExperience[i].description = loaded.experience[i].description

\* C14: the document generate_resume_file produces for a tailored resume
\* shows, under each experience entry, the tailored bullets of that entry in
\* place of the base resume's: one rendered bullet per entry of the tailored
\* list, whatever their number.
C14_DocumentShowsTailoredBullets ==
    (tpc = "assembled" /\ ~returned_base) =>
        /\ DOMAIN document.experience = DOMAIN ReturnedExperience
        /\ \A i \in DOMAIN ReturnedExperience :
             document.experience[i] = ReturnedExperience[i].description

\* The requests the last generate_tailored_resume call sent to the language
\* model, answered or not.
RequestsSent ==
    Cardinality({ f \in {"summary", "skills"} : llm[f] # NotAsked })
        + Cardinality({ i \in DOMAIN llm.bullets : llm.bullets[i] # NotAsked })

\* C27: a generate_tailored_resume call sends N + 2 requests to the language
\* model, N being the number of experience entries of the resume: one for
\* the summary, one for the skills and one for every entry.
C27_CallSendsNPlus2Requests ==
    llm # NoCall =>
        /\ llm.summary # NotAsked
        /\ llm.skills # NotAsked
        /\ DOMAIN llm.bullets = DOMAIN resume_data.experience
        /\ RequestsSent = Len(resume_data.experience) + 2

\* The lines of an answer that are not blank
NonBlankLines(content) ==
    SelectSeq(Split(content, "\n"), LAMBDA line : Strip(line) # "")

\* C28: every bullet _generate_experience_bullets returns from an answer of
\* the language model is a non-empty string without a bullet glyph at its
\* start and without whitespace around it, and the bullets are as many as the
\* answer has non-blank lines, in whatever number.
C28_BulletsAreCleanNonEmptyLines ==
    (bpc = "returned" /\ bullets_in.ok) =>
        /\ Len(bullets_out) = Len(NonBlankLines(bullets_in.content))
        /\ \A i \in DOMAIN bullets_out :
             /\ bullets_out[i] # ""
             /\ CharAt(bullets_out[i], 1) \notin {Bullet, "-", "*"}
             /\ Strip(bullets_out[i]) = bullets_out[i]

-----------------------------------------------------------------------------
(* Claims about the shapes of the skills (SpecSkills)                      *)

\* C9: a skills value of any of the three shapes is given back by its normal
\* form: whatever value of the same shape has the normal form just computed
\* is the value that was normalized, so that serializing the normal form back
\* to that shape returns it.
C9_NormalFormGivesBackValue ==
    npc = "normalized" =>
        \A x \in SkillsInputs :
            (/\ x.shape = skills_in.shape
             /\ NormalText(normalizer, x) = normal_text
             /\ NormalParas(normalizer, x) = normal_paras) => x = skills_in


\* The skills a value names outside its label-only categories, whatever its
\* shape.
NamedSkills(skills) ==
    CASE skills.shape = "list" -> Range(skills.l)
      [] skills.shape = "str" ->
            IF skills.s = "" THEN {} ELSE Range(Split(skills.s, ", "))
      [] skills.shape = "dict" ->
            UNION { Range(skills.d[i].skills) :
                      i \in { j \in DOMAIN skills.d :
                                LowerRec(skills.d[j].category) \notin {"git", "scrum"} } }
      [] OTHER -> {}

\* Paragraphs in block form: every plain paragraph follows a bold label, and
\* a bold label no plain paragraph follows is Git or Scrum.
IsBlockForm(paras) ==
    \A i \in DOMAIN paras :
        IF paras[i].bold
        THEN \/ i < Len(paras) /\ ~paras[i + 1].bold
             \/ paras[i].text \in {"Git", "Scrum"}
        ELSE i > 1 /\ paras[i - 1].bold

\* C15: whatever the shape of the skills (list, category map, delimited
\* string), the from-scratch layout renders them in the same block form: a
\* bold category label followed by the comma-joined skills of the category,
\* and a standalone bold label for a label-only category (Git, Scrum); every
\* skill of a category is in the skills paragraph of a block.
C15_ShapesRenderInBlockForm ==
    (npc = "normalized" /\ normalizer = "create_basic_resume") =>
        /\ IsBlockForm(normal_paras)
        /\ \A skill \in NamedSkills(skills_in) :
             \E i \in DOMAIN normal_paras :
                 /\ ~normal_paras[i].bold
                 /\ skill \in Range(Split(normal_paras[i].text, ", "))


\* C20: when the template is missing or fails to render,
\* _create_template_resume returns the from-scratch layout of the same
\* resume data, and no error of the template reaches its caller.
C20_TemplateFailureFallsBack ==
    (npc = "templated" /\ templated.outcome \in {"missing", "render_error"}) =>
        /\ ~templated.raised
        /\ templated.layout = "basic"
        /\ normal_paras = create_basic_resume_skills(skills_in)

\* The template failed to render for a resume with a category of two skills.
C20_Witness ==
    /\ npc = "templated"
    /\ templated.outcome = "render_error"
    /\ skills_in = PyDict(<<Item("languages", <<"Python", "SQL">>)>>)
    /\ normal_paras = <<Para("Languages", TRUE), Para("Python, SQL", FALSE)>>

-----------------------------------------------------------------------------
(* Claims about the file, the upload and the tracking sheet (SpecPublish)  *)

\* process_job_application got the file but no link: the upload failed, or
\* there is no drive service.
NoRemoteUrl ==
    /\ ppc = "processed"
    /\ ~created.raised
    /\ created.path = OutputPath
    /\ drive_url = None

\* C16: when the upload of the document fails, or file storage is not
\* enabled, process_job_application still returns the job, with the local
\* path of the document and no remote URL, and the tracking row of the job
\* is written.
C16_UploadFailureNotFatal ==
    NoRemoteUrl =>
        /\ ~processed.raised
        /\ Get(processed.job_data, "resume_path", "") = created.path
        /\ Get(processed.job_data, "resume_drive_url", None) = None
        /\ Len(appended) = 1

\* C17: after any sequence of add_jobs calls, no two rows of the sheet have
\* the same job URL.
C17_NoTwoRowsShareUrl ==
    \A i, j \in DOMAIN sheet : sheet[i].url = sheet[j].url => i = j

\* C18: the row written for a job process_job_application processed carries
\* the title, the company and the URL of that job, the status "Resume
\* Generated" and the link of the generated resume.
C18_RowCarriesProcessedJob ==
    (ppc = "processed" /\ ~processed.raised /\ appended # <<>>) =>
        /\ appended[1].title = processed.job_data["title"]
        /\ appended[1].company = processed.job_data["company"]
        /\ appended[1].url = processed.job_data["url"]
        /\ appended[1].status = "Resume Generated"
        /\ appended[1].resume_url = drive_url

\* C19: create_resume saves the document before any upload: an upload is
\* attempted only after the save completed, never after a save that failed,
\* and a failed upload leaves the saved file in place and its path returned.
C19_SavedBeforeAnyUpload ==
    LET events == created.events
        IsUpload(e) == e \in {"uploaded", "upload_failed"}
    IN /\ \A i \in DOMAIN events :
            IsUpload(events[i]) => \E j \in 1..(i - 1) : events[j] = "saved"
       /\ "save_failed" \in Range(events) =>
            \A i \in DOMAIN events : ~IsUpload(events[i])
       /\ "upload_failed" \in Range(events) =>
            /\ ~created.raised
            /\ created.path = OutputPath
            /\ "saved" \in Range(events)

\* A create_resume whose upload failed after the save.
C19_Witness ==
    /\ ppc = "processed"
    /\ created.events = <<"saved", "upload_failed">>
    /\ created.path = OutputPath

\* The copies of the document in file storage that the state shows: the one
\* create_resume uploaded, and the one upload_to_google_drive uploaded when
\* it returned the link (a copy it uploaded before a sharing request failed
\* is not counted).
CopiesUploaded ==
    (IF "uploaded" \in Range(created.events) THEN 1 ELSE 0)
        + (IF drive_url = WebViewLink THEN 1 ELSE 0)

\* C29: while one job is processed its document is uploaded to file storage
\* at most once, so the job leaves at most one copy there.
C29_DocumentUploadedAtMostOnce == CopiesUploaded <= 1

\* What get_jobs_for_resume_generation returned is, when the sheet could be
\* read, the rows without a resume link whose status is "Not Started".
ReturnsRowsThatNeedResume ==
    (ppc = "got" /\ resume_jobs.read_ok) =>
        resume_jobs.jobs = SelectSeq(sheet, NeedsResume)

\* No job returned has a URL update_job stored a resume link for.
StoredJobNotReturned ==
    ppc = "got" =>
        \A i \in DOMAIN resume_jobs.jobs : resume_jobs.jobs[i].url \notin stored

\* A step of update_job leaves every row but the first with the given URL.
UpdateChangesFirstMatchOnly ==
    ppc' = "updated" =>
        LET matches == { i \in DOMAIN sheet : sheet[i].url = last_update'.job_url } IN
        /\ Len(sheet') = Len(sheet)
        /\ matches = {} => sheet' = sheet
        /\ \A i \in DOMAIN sheet :
             (\E j \in matches : j < i) \/ i \notin matches => sheet'[i] = sheet[i]

\* C30: get_jobs_for_resume_generation returns the tracked jobs with an empty
\* resume link and the status "Not Started"; a job whose URL update_job stored
\* a resume link for is returned by no later call; and update_job changes the
\* first row with the given Job URL only, and nothing when no row has it.
C30_StoredJobsLeaveTheQueue ==
    /\ [](ReturnsRowsThatNeedResume /\ StoredJobNotReturned)
    /\ [][UpdateChangesFirstMatchOnly]_vars

=============================================================================
